---- MODULE Spec2Model ----
(***************************************************************************)
(* rusty-backup: the backup pipeline (Backup::start), the archive name     *)
(* chain (build_real_archive_name / build_possible_archive_names and the   *)
(* suffix handling), the local-directory search of restore and the         *)
(* newest-object selection of the object-store and secure-copy fetch.      *)
(*                                                                         *)
(* File names and templates are TLA+ strings; the string helpers below     *)
(* compute on them character by character, as the Rust code does.          *)
(***************************************************************************)
EXTENDS Integers, Sequences, FiniteSets, TLC

VARIABLES
    \* ---- Backup::start (src/backup/mod.rs) ----
    pc,                            \* position inside Backup::start
    result,                        \* "running" | "Ok" | "Err" | "panic"
    failedAt,                      \* the operation whose failure ended the run
    archiveIdx,                    \* archives taken from configuration.archives so far
    archive,                       \* the archive of the current loop iteration
    real_archive_name,
    files_to_move_to_destination,
    temporary_files,
    idx,                           \* index of the running for-loop
    disk,                          \* files in the working directory
    tar_entries,                   \* entries appended to the tar Builder
    dump_codes,                    \* per dump command waited for: file and exit code
    created,                       \* files this archive's iteration created
    storeLog,                      \* per file of the destination loop: what happened
    \* ---- the archive name from backup to restore ----
    n_pc,                          \* position in the name chain
    n_archive,                     \* the archive: name template, compression, encryption
    n_now,                         \* Utc::now() of the backup run
    n_file,                        \* the file backup builds and hands to the destination
    n_archive_name,                \* the name download_*_to_tmp returns
    n_full_path,                   \* the file Restore::start decrypts / decompresses
    possible_archive_names,        \* what build_possible_archive_names returns
    \* ---- Restore::get_newest_archive_name_in_directory ----
    l_pc,
    l_archive,                     \* name template, compression, encryption, path
    l_dir,                         \* the filesystem: file name -> creation time
    l_idx,                         \* candidates examined so far
    newest_archive_opt,            \* Option<(String, SystemTime)>
    l_return,                      \* the Option<String> returned
    \* ---- Destination::download_from_{s3,ssh}_to_tmp ----
    f_pc,
    f_archive,                     \* name template and destination kind
    f_remote,                      \* the bucket / remote directory, in listing order
    contents,                      \* the listing the selection loop iterates
    f_idx,                         \* entries of the listing visited so far
    last_known_key_opt,
    last_known_datetime_opt,
    f_return,                      \* "running" | "Err" | "panic" | "Ok(None)" | "Ok(Some)"
    \* ---- Restore::start (src/restore/mod.rs) ----
    r_pc,                          \* position inside Restore::start
    r_result,                      \* "running" | "Ok" | "Err" | "panic"
    r_failedAt,                    \* the operation whose failure ended the run
    r_archiveIdx,                  \* archives taken from configuration.archives so far
    r_archive,                     \* the archive of the current loop iteration
    archive_filename_opt,          \* what the Locate step returned
    temporary_files_to_remove,
    r_idx,                         \* index of the running for-loop
    r_fs,                          \* the filesystem: path -> creation time
    r_created,                     \* files this archive's restore wrote into the working directory
    r_log,                          \* the calls of the run, in order, with their outcome
    \* ---- Compression::decompress_tar_file (src/configuration/compression.rs) ----
    x_pc,                          \* position inside decompress_tar_file
    x_result,                      \* "running" | "Ok" | "Err"
    x_entries,                     \* the paths of the entries of the tar file, in order
    output_dirs,                   \* the directories of the archive
    dbs,                           \* the databases of the archive
    x_entry,                       \* index of the entry the closure runs for
    x_db,                          \* index of the running `for db in dbs`
    x_files,                       \* the files of the working directory
    x_calls,                        \* the calls made for the entries, in order, with their outcome
    \* ---- ProgressStats (src/helper/mod.rs) ----
    progressed_size,
    time_series,                   \* the samples held: <<[t, size], ...>>, oldest first
    p_now,                         \* Instant::now(), in ticks
    p_history,                     \* every sample ever pushed, evicted ones included
    p_op,                          \* the last call: "new" | "add" | "set" | "read" | "panic" | "elapse"
    p_read,                         \* what the last speed computation counted and returned
    \* ---- the transfer and its reporting thread (src/configuration/destination.rs 153-264) ----
    t_pc,                          \* position of download_from_s3_to_tmp in its copy loop
    t_return,                      \* "running" | "Err" | "Ok(Some)"
    rep_pc,                        \* position of the reporting thread
    lock,                          \* who holds the mutex of the shared ProgressStats: "free" | "transfer" | "reporter"
    finished,                      \* ProgressStats.finished
    t_progressed_size,             \* ProgressStats.progressed_size of the download
    read_bytes,                    \* what the last read_buf returned
    t_reads,                       \* read_buf calls so far
    rep_seen,                       \* the progressed_size the reporter printed last
    \* ---- copying a local file to a remote handle or a pipe (src/backup/mod.rs 199-219, src/configuration/database.rs 196-231) ----
    s_pc,                          \* position inside the copy
    s_result,                      \* "running" | "Ok" | "Err" | "panic" | "skipped"
    s_file,                        \* the bytes of the local file
    s_offset,                      \* bytes of the file read so far
    buf,                           \* the buffer
    s_read_bytes,                  \* what the last read returned
    s_sent,                        \* the bytes the remote handle / the pipe accepted, in order
    s_size,                        \* the size declared to scp_send: <<>> or <<n>>
    \* ---- a directory from backup to restore ----
    d_pc,                          \* "pack" | "unpack" | "done"
    d_directories,                 \* archive.directories: the names, in configuration order
    d_idx,                         \* directories packed / entries unpacked so far
    d_packed,                      \* the tar entries: the directory and file each came from, its path
    d_unpacked                     \* per entry: where restore unpacked it, <<>> for nowhere

bvars == <<pc, result, failedAt, archiveIdx, archive, real_archive_name,
           files_to_move_to_destination, temporary_files, idx, disk,
           tar_entries, dump_codes, created, storeLog>>

nvars == <<n_pc, n_archive, n_now, n_file, n_archive_name, n_full_path,
           possible_archive_names>>

lvars == <<l_pc, l_archive, l_dir, l_idx, newest_archive_opt, l_return>>

fvars == <<f_pc, f_archive, f_remote, contents, f_idx, last_known_key_opt,
           last_known_datetime_opt, f_return>>

rvars == <<r_pc, r_result, r_failedAt, r_archiveIdx, r_archive,
           archive_filename_opt, temporary_files_to_remove, r_idx, r_fs,
           r_created, r_log>>

xvars == <<x_pc, x_result, x_entries, output_dirs, dbs, x_entry, x_db, x_files,
           x_calls>>

pvars == <<progressed_size, time_series, p_now, p_history, p_op, p_read>>

tvars == <<t_pc, t_return, rep_pc, lock, finished, t_progressed_size,
           read_bytes, t_reads, rep_seen>>

svars == <<s_pc, s_result, s_file, s_offset, buf, s_read_bytes, s_sent, s_size>>

dvars == <<d_pc, d_directories, d_idx, d_packed, d_unpacked>>

\* the state that Backup::start does not touch
others == <<nvars, lvars, fvars, rvars, xvars, pvars, tvars, svars, dvars>>

vars == <<bvars, nvars, lvars, fvars, rvars, xvars, pvars, tvars, svars, dvars>>

----------------------------------------------------------------------------
(* Bounds of the model *)

MaxArchives == 2
MaxDirectories == 1
MaxDatabases == 1
MaxSegments == 2
MaxFiles == 3
MaxTime == 2
MaxObjects == 2
MaxEntries == 2
MaxClock == 24
MaxRecords == 3
MaxBytes == 4
MaxReads == 3
MaxFileLen == 5

----------------------------------------------------------------------------
(* Strings: str::starts_with, str::ends_with, str::find,                   *)
(* Regex::replace (first match) and Regex::replace_all for the literal     *)
(* patterns the program uses.                                              *)

StartsWith(s, p) ==
    /\ Len(p) <= Len(s)
    /\ SubSeq(s, 1, Len(p)) = p

EndsWith(s, p) ==
    /\ Len(p) <= Len(s)
    /\ SubSeq(s, Len(s) - Len(p) + 1, Len(s)) = p

\* 1-based position of the first occurrence of p in s, 0 when there is none
Find(s, p) ==
    LET hits == {k \in 1..(Len(s) - Len(p) + 1) : SubSeq(s, k, k + Len(p) - 1) = p}
    IN  IF hits = {} THEN 0
        ELSE CHOOSE k \in hits : \A h \in hits : k <= h

Replace(s, pat, rep) ==
    LET k == Find(s, pat)
    IN  IF k = 0 THEN s
        ELSE SubSeq(s, 1, k - 1) \o rep \o SubSeq(s, k + Len(pat), Len(s))

RECURSIVE ReplaceAll(_, _, _)
ReplaceAll(s, pat, rep) ==
    LET k == Find(s, pat)
    IN  IF k = 0 THEN s
        ELSE SubSeq(s, 1, k - 1) \o rep
                 \o ReplaceAll(SubSeq(s, k + Len(pat), Len(s)), pat, rep)

\* the elements of a sequence
Range(seq) == {seq[k] : k \in 1..Len(seq)}

----------------------------------------------------------------------------
(* Name templates and the date                                             *)

PH_YEAR == "{date:year}"
PH_MONTH == "{date:month}"
PH_DAY == "{date:day}"
PH_WEEKDAY == "{date:weekday}"

\* chrono::Weekday in declaration order, as Debug/Display print it
Weekdays == <<"Mon", "Tue", "Wed", "Thu", "Fri", "Sat", "Sun">>

Digit(d) == SubSeq("0123456789", d + 1, d + 1)

RECURSIVE Decimal(_)
Decimal(n) == IF n < 10 THEN Digit(n) ELSE Decimal(n \div 10) \o Digit(n % 10)

RECURSIVE PadLeft(_, _)
PadLeft(s, w) == IF Len(s) >= w THEN s ELSE PadLeft("0" \o s, w)

\* format!("{:0width$}", n, width = w)
ZeroPad(n, w) == PadLeft(Decimal(n), w)

\* Utc::now() as the program reads it: year, month, day and weekday (1 = Mon)
Dates == {
    [year |-> 2024, month |-> 3, day |-> 7, weekday |-> 4],
    [year |-> 987, month |-> 11, day |-> 23, weekday |-> 1] }

build_real_archive_name(name, now) ==
    LET n1 == ReplaceAll(name, PH_YEAR, ZeroPad(now.year, 4))
        n2 == ReplaceAll(n1, PH_MONTH, ZeroPad(now.month, 2))
        n3 == ReplaceAll(n2, PH_DAY, ZeroPad(now.day, 2))
    IN  ReplaceAll(n3, PH_WEEKDAY, Weekdays[now.weekday])

\* Compression::to_extension_string
CompressionExt(c) ==
    CASE c = "Tar" -> ".tar"
      [] c = "TarBZ2" -> ".tar.bz2"
      [] OTHER -> ""

\* Encryption::to_extension_string
EncryptionExt == ".enc"

\* tar_archive: format!("{}.tar", archive_name)
TarName(n) == n \o ".tar"

\* bz2_archive: format!("{}.bz2", archive_name)
Bz2Name(n) == n \o ".bz2"

\* encrypt_file: format!("{}.enc", input_filename); start: push_str(".enc")
EncName(n) == n \o ".enc"

\* Database::build_dump_filename
build_dump_filename(db) ==
    IF db.kind = "MongoDB" THEN db.name \o ".bson" ELSE db.name \o ".sql"

\* tar_archive: REGEX_PATH (".*/") replace_all(directory.name, "")
RECURSIVE ArchiveDirectoryString(_)
ArchiveDirectoryString(d) ==
    LET k == Find(d, "/")
    IN  IF k = 0 THEN d ELSE ArchiveDirectoryString(SubSeq(d, k + 1, Len(d)))

----------------------------------------------------------------------------
(* Backup::start, src/backup/mod.rs                                        *)
(*                                                                         *)
(* Every filesystem call, spawned command and network call has the         *)
(* outcomes its Result allows; the model takes each of them.  A failure    *)
(* handled with `return Err` / `?` ends the run with result "Err", one     *)
(* handled with unwrap() ends it with result "panic".                      *)

SeqsUpTo(S, n) == UNION {[1..k -> S] : k \in 0..n}

BackupTemplates == {"w-{date:weekday}", "d{date:year}.tar"}
DirectoryNames == {"/data/app"}
DatabaseSet == {[name |-> "shop", kind |-> "MySql"],
                [name |-> "logs", kind |-> "MongoDB"]}
Compressions == {"None", "Tar", "TarBZ2"}
DestinationKinds == {"Directory", "S3", "SSH", "None"}

\* Utc::now() of a backup run
BackupDates == {[year |-> 2024, month |-> 3, day |-> 7, weekday |-> 4]}

\* configuration::archive::Archive as Configuration::load can build it
ArchivesNamed(names) ==
    [name : names,
     compression : Compressions,
     encryption : BOOLEAN,
     kind : DestinationKinds,
     directories : SeqsUpTo(DirectoryNames, MaxDirectories),
     databases : SeqsUpTo(DatabaseSet, MaxDatabases)]

NoArchive == [name |-> "", compression |-> "None", encryption |-> FALSE,
              kind |-> "None", directories |-> <<>>, databases |-> <<>>]

\* Backup::start before it is called
BackupIdle ==
    /\ pc = "idle"
    /\ result = "running"
    /\ failedAt = "none"
    /\ archiveIdx = 0
    /\ archive = NoArchive
    /\ real_archive_name = ""
    /\ files_to_move_to_destination = <<>>
    /\ temporary_files = <<>>
    /\ idx = 0
    /\ disk = {}
    /\ tar_entries = {}
    /\ dump_codes = <<>>
    /\ created = {}
    /\ storeLog = <<>>

\* the name chain when no name is followed
NamesIdle ==
    /\ n_pc = "idle"
    /\ n_archive = NoArchive
    /\ n_now = CHOOSE d \in Dates : TRUE
    /\ n_file = ""
    /\ n_archive_name = ""
    /\ n_full_path = ""
    /\ possible_archive_names = <<>>

\* get_newest_archive_name_in_directory before it is called
LocateIdle ==
    /\ l_pc = "idle"
    /\ l_archive = NoArchive
    /\ l_dir = <<>>
    /\ l_idx = 0
    /\ newest_archive_opt = <<>>
    /\ l_return = <<>>

\* download_to_tmp before it is called
FetchIdle ==
    /\ f_pc = "idle"
    /\ f_archive = NoArchive
    /\ f_remote = <<>>
    /\ contents = <<>>
    /\ f_idx = 0
    /\ last_known_key_opt = <<>>
    /\ last_known_datetime_opt = <<>>
    /\ f_return = "running"

\* Restore::start before it is called
RestoreIdle ==
    /\ r_pc = "idle"
    /\ r_result = "running"
    /\ r_failedAt = "none"
    /\ r_archiveIdx = 0
    /\ r_archive = NoArchive
    /\ archive_filename_opt = <<>>
    /\ temporary_files_to_remove = <<>>
    /\ r_idx = 0
    /\ r_fs = <<>>
    /\ r_created = {}
    /\ r_log = <<>>

\* decompress_tar_file before it is called
ExtractIdle ==
    /\ x_pc = "idle"
    /\ x_result = "running"
    /\ x_entries = <<>>
    /\ output_dirs = <<>>
    /\ dbs = <<>>
    /\ x_entry = 0
    /\ x_db = 0
    /\ x_files = {}
    /\ x_calls = <<>>

\* no ProgressStats exists
ProgressIdle ==
    /\ progressed_size = 0
    /\ time_series = <<>>
    /\ p_now = 0
    /\ p_history = <<>>
    /\ p_op = "idle"
    /\ p_read = <<>>

\* no download is running
TransferIdle ==
    /\ t_pc = "idle"
    /\ t_return = "running"
    /\ rep_pc = "idle"
    /\ lock = "free"
    /\ finished = FALSE
    /\ t_progressed_size = 0
    /\ read_bytes = 0
    /\ t_reads = 0
    /\ rep_seen = 0

\* no file is being copied
StreamIdle ==
    /\ s_pc = "idle"
    /\ s_result = "running"
    /\ s_file = <<>>
    /\ s_offset = 0
    /\ buf = <<>>
    /\ s_read_bytes = 0
    /\ s_sent = <<>>
    /\ s_size = <<>>

RoundTripIdle ==
    /\ d_pc = "idle"
    /\ d_directories = <<>>
    /\ d_idx = 0
    /\ d_packed = <<>>
    /\ d_unpacked = <<>>

InitBackup ==
    /\ RoundTripIdle
    /\ StreamIdle
    /\ TransferIdle
    /\ ProgressIdle
    /\ ExtractIdle
    /\ RestoreIdle
    /\ NamesIdle
    /\ LocateIdle
    /\ FetchIdle
    /\ pc = "setup"
    /\ result = "running"
    /\ failedAt = "none"
    /\ archiveIdx = 0
    /\ archive = NoArchive
    /\ real_archive_name = ""
    /\ files_to_move_to_destination = <<>>
    /\ temporary_files = <<>>
    /\ idx = 0
    /\ disk = {}
    /\ tar_entries = {}
    /\ dump_codes = <<>>
    /\ created = {}
    /\ storeLog = <<>>

\* the run ends at operation `stage`: how = "Err" (returned) or "panic" (unwrap)
Abort(stage, how) ==
    /\ pc' = "done"
    /\ result' = how
    /\ failedAt' = stage

\* lines 67-68: create_dir_all / set_current_dir, both with `?`
Setup ==
    /\ pc = "setup"
    /\ \E outcome \in {"ok", "create_dir_all", "set_current_dir"} :
          IF outcome = "ok"
          THEN pc' = "start" /\ UNCHANGED <<result, failedAt>>
          ELSE Abort(outcome, "Err")
    /\ UNCHANGED <<archiveIdx, archive, real_archive_name,
                   files_to_move_to_destination, temporary_files, idx, disk,
                   tar_entries, created, storeLog, dump_codes, others>>

\* lines 70-77: the next archive of configuration.archives
StartArchive ==
    /\ pc = "start"
    /\ archiveIdx < MaxArchives
    /\ \E name \in BackupTemplates, now \in BackupDates :
          LET real_name == build_real_archive_name(name, now)
          IN  \E a \in ArchivesNamed({name}) :
                 /\ archive' = a
                 /\ real_archive_name' = real_name
                 /\ pc' = IF a.compression \in {"Tar", "TarBZ2"} THEN "tar_create"
                          ELSE "encrypt"
    /\ archiveIdx' = archiveIdx + 1
    /\ files_to_move_to_destination' = <<>>
    /\ temporary_files' = <<>>
    /\ idx' = 1
    /\ UNCHANGED <<result, failedAt, disk, tar_entries, created, storeLog, dump_codes, others>>

\* line 234: the loop body ends, its locals are dropped
EndArchive ==
    /\ pc = "archive_end"
    /\ pc' = "start"
    /\ archive' = NoArchive
    /\ real_archive_name' = ""
    /\ files_to_move_to_destination' = <<>>
    /\ temporary_files' = <<>>
    /\ idx' = 0
    /\ tar_entries' = {}
    /\ dump_codes' = <<>>
    /\ created' = {}
    /\ storeLog' = <<>>
    /\ UNCHANGED <<result, failedAt, archiveIdx, disk, others>>

\* line 236: configuration.archives is exhausted
Finish ==
    /\ pc = "start"
    /\ pc' = "done"
    /\ result' = "Ok"
    /\ UNCHANGED <<failedAt, archiveIdx, archive, real_archive_name,
                   files_to_move_to_destination, temporary_files, idx, disk,
                   tar_entries, created, storeLog, dump_codes, others>>

\* where tar_archive continues after the tar file exists / a directory / a dump
TarPc(a, stage, k) ==
    IF stage = "tar_dirs" /\ k <= Len(a.directories) THEN "tar_dirs"
    ELSE IF stage = "tar_dirs" /\ Len(a.databases) > 0 THEN "tar_dbs"
    ELSE IF stage = "tar_dbs" /\ k <= Len(a.databases) THEN "tar_dbs"
    ELSE "tar_return"

\* tar_archive lines 305-311, 378-394: File::create(<name>.tar)
TarCreate ==
    /\ pc = "tar_create"
    /\ \E ok \in BOOLEAN :
          IF ok
          THEN /\ disk' = disk \cup {TarName(real_archive_name)}
               /\ created' = created \cup {TarName(real_archive_name)}
               /\ pc' = TarPc(archive, "tar_dirs", 1)
               /\ idx' = 1
               /\ UNCHANGED <<result, failedAt>>
          ELSE /\ Abort("tar_create", "Err")
               /\ UNCHANGED <<disk, created, idx>>
    /\ UNCHANGED <<archiveIdx, archive, real_archive_name,
                   files_to_move_to_destination, temporary_files,
                   tar_entries, storeLog, dump_codes, others>>

\* tar_archive lines 313-326: tar.append_dir_all for one directory
TarAppendDir ==
    /\ pc = "tar_dirs"
    /\ idx <= Len(archive.directories)
    /\ \E ok \in BOOLEAN :
          IF ok
          THEN /\ tar_entries' = tar_entries
                     \cup {ArchiveDirectoryString(archive.directories[idx])}
               /\ pc' = TarPc(archive, "tar_dirs", idx + 1)
               /\ idx' = IF idx + 1 <= Len(archive.directories) THEN idx + 1 ELSE 1
               /\ UNCHANGED <<result, failedAt>>
          ELSE /\ Abort("tar_append_dir", "Err")
               /\ UNCHANGED <<tar_entries, idx>>
    /\ UNCHANGED <<archiveIdx, archive, real_archive_name,
                   files_to_move_to_destination, temporary_files, disk,
                   created, storeLog, dump_codes, others>>

\* std::process::ExitStatus::code() of a child
ExitCodes == {"Some(0)", "Some(1)", "None"}

\* variant: the dump file is appended after every exit, whatever the code
DumpIsAppended_AnyExit(code) == code # "None"

\* tar_archive line 343-344: the dump file is appended (and then removed)
DumpIsAppended(code) == code = "Some(0)"

\* tar_archive lines 328-376, one database: create the dump file, spawn the
\* dump command, wait for it, and on exit code 0 open/append/remove the file.
\* Every Err of the chain reaches the unwrap() of line 375.
TarDumpDatabase ==
    /\ pc = "tar_dbs"
    /\ idx <= Len(archive.databases)
    /\ LET db_filename == build_dump_filename(archive.databases[idx])
           next == /\ pc' = TarPc(archive, "tar_dbs", idx + 1)
                   /\ idx' = IF idx + 1 <= Len(archive.databases) THEN idx + 1 ELSE 1
                   /\ UNCHANGED <<result, failedAt>>
       IN  \/ /\ Abort("dump_create", "panic")
              /\ UNCHANGED <<disk, created, tar_entries, dump_codes, idx>>
           \/ /\ \E stage \in {"dump_spawn", "dump_wait"} : Abort(stage, "panic")
              /\ disk' = disk \cup {db_filename}
              /\ created' = created \cup {db_filename}
              /\ UNCHANGED <<tar_entries, dump_codes, idx>>
           \/ \E code \in ExitCodes :
              /\ dump_codes' = Append(dump_codes, [file |-> db_filename, code |-> code])
              /\ IF DumpIsAppended(code)
                 THEN \/ /\ \E stage \in {"dump_open", "dump_append"} :
                               Abort(stage, "panic")
                         /\ disk' = disk \cup {db_filename}
                         /\ created' = created \cup {db_filename}
                         /\ UNCHANGED <<tar_entries, idx>>
                      \/ /\ Abort("dump_remove", "panic")
                         /\ disk' = disk \cup {db_filename}
                         /\ created' = created \cup {db_filename}
                         /\ tar_entries' = tar_entries \cup {db_filename}
                         /\ UNCHANGED idx
                      \/ /\ next
                         /\ disk' = disk \ {db_filename}
                         /\ created' = created \cup {db_filename}
                         /\ tar_entries' = tar_entries \cup {db_filename}
                 ELSE /\ next
                      /\ disk' = disk \cup {db_filename}
                      /\ created' = created \cup {db_filename}
                      /\ UNCHANGED tar_entries
    /\ UNCHANGED <<archiveIdx, archive, real_archive_name,
                   files_to_move_to_destination, temporary_files,
                   storeLog, others>>

\* tar_archive line 397 and start lines 84-96: tar_archive returned Ok(tar_file)
TarReturn ==
    /\ pc = "tar_return"
    /\ LET tar_file == TarName(real_archive_name)
       IN  /\ real_archive_name' = tar_file
           /\ files_to_move_to_destination' =
                 IF archive.compression = "Tar"
                 THEN Append(files_to_move_to_destination, tar_file)
                 ELSE files_to_move_to_destination
           /\ temporary_files' =
                 IF archive.compression = "TarBZ2"
                 THEN Append(temporary_files, tar_file)
                 ELSE temporary_files
    /\ pc' = IF archive.compression = "TarBZ2" THEN "bz2" ELSE "encrypt"
    /\ idx' = 1
    /\ UNCHANGED <<result, failedAt, archiveIdx, archive, disk, tar_entries,
                   created, storeLog, dump_codes, others>>

\* bz2_archive lines 239-298 and start lines 97-104
Bz2Archive ==
    /\ pc = "bz2"
    /\ LET bz2_archive_name == Bz2Name(real_archive_name)
       IN  \/ /\ Abort("bz2_create", "Err")
              /\ UNCHANGED <<disk, created, files_to_move_to_destination>>
           \/ /\ \E stage \in {"bz2_open", "bz2_read", "bz2_write", "bz2_finish"} :
                    Abort(stage, "Err")
              /\ disk' = disk \cup {bz2_archive_name}
              /\ created' = created \cup {bz2_archive_name}
              /\ UNCHANGED files_to_move_to_destination
           \/ /\ pc' = "encrypt"
              /\ disk' = disk \cup {bz2_archive_name}
              /\ created' = created \cup {bz2_archive_name}
              /\ files_to_move_to_destination' =
                    Append(files_to_move_to_destination, bz2_archive_name)
              /\ UNCHANGED <<result, failedAt>>
    /\ UNCHANGED <<archiveIdx, archive, real_archive_name, temporary_files, idx,
                   tar_entries, storeLog, dump_codes, others>>

\* where start goes once the destination loop of the archive is over
AfterStorePc(temps) == IF temps = <<>> THEN "archive_end" ELSE "cleanup"

\* where a `for file in files_to_move_to_destination` loop continues
StorePc(stage, k, files, temps) ==
    IF k <= Len(files) THEN stage ELSE AfterStorePc(temps)

\* start line 126: match archive.destination.kind
DestinationPc(a, files, temps) ==
    CASE a.kind = "Directory" -> "dir_create"
      [] a.kind = "S3" -> StorePc("s3", 1, files, temps)
      [] a.kind = "SSH" -> "ssh_connect"
      [] OTHER -> AfterStorePc(temps)

\* variant: a failed encrypt_file is passed over and the loop goes on
EncryptFailed_Ignored(stage) ==
    /\ idx' = idx + 1
    /\ UNCHANGED <<pc, result, failedAt>>

\* start lines 111-113: `return Err(err)`
EncryptFailed(stage) ==
    /\ Abort(stage, "Err")
    /\ UNCHANGED idx

\* Encryption::encrypt_file lines 61-92 for one file, start lines 110-114
EncryptFile ==
    /\ pc = "encrypt"
    /\ archive.encryption
    /\ idx <= Len(files_to_move_to_destination)
    /\ LET file == files_to_move_to_destination[idx]
       IN  \/ /\ \E stage \in {"encrypt_spawn", "encrypt_wait",
                               "encrypt_exit_code", "encrypt_no_status"} :
                    EncryptFailed(stage)
              /\ UNCHANGED <<disk, created>>
           \/ /\ disk' = disk \cup {EncName(file)}
              /\ created' = created \cup {EncName(file)}
              /\ idx' = idx + 1
              /\ UNCHANGED <<pc, result, failedAt>>
    /\ UNCHANGED <<archiveIdx, archive, real_archive_name,
                   files_to_move_to_destination, temporary_files,
                   tar_entries, storeLog, dump_codes, others>>

\* start lines 116-121: every name gets ".enc"
EncryptDone ==
    /\ pc = "encrypt"
    /\ archive.encryption
    /\ idx > Len(files_to_move_to_destination)
    /\ files_to_move_to_destination' =
          [k \in 1..Len(files_to_move_to_destination) |->
              EncName(files_to_move_to_destination[k])]
    /\ pc' = DestinationPc(archive, files_to_move_to_destination, temporary_files)
    /\ idx' = 1
    /\ UNCHANGED <<result, failedAt, archiveIdx, archive, real_archive_name,
                   temporary_files, disk, tar_entries, created, storeLog, dump_codes, others>>

\* start line 123: encryption is None
NoEncryption ==
    /\ pc = "encrypt"
    /\ ~archive.encryption
    /\ pc' = DestinationPc(archive, files_to_move_to_destination, temporary_files)
    /\ idx' = 1
    /\ UNCHANGED <<result, failedAt, archiveIdx, archive, real_archive_name,
                   files_to_move_to_destination, temporary_files, disk,
                   tar_entries, created, storeLog, dump_codes, others>>

\* one entry of storeLog: the file and the calls made for it, in order, each
\* with its outcome
Call(op, ok) == [op |-> op, ok |-> ok]

Logged(file, calls) ==
    Append(storeLog, [file |-> file, kind |-> archive.kind, calls |-> calls])

\* start lines 128-132: create_dir_all(archive_path)
DirCreate ==
    /\ pc = "dir_create"
    /\ \E ok \in BOOLEAN :
          IF ok
          THEN /\ pc' = StorePc("dir_store", 1, files_to_move_to_destination,
                                temporary_files)
               /\ UNCHANGED <<result, failedAt>>
          ELSE Abort("dir_create", "Err")
    /\ idx' = 1
    /\ UNCHANGED <<archiveIdx, archive, real_archive_name,
                   files_to_move_to_destination, temporary_files, disk,
                   tar_entries, created, storeLog, dump_codes, others>>

\* start lines 137-151: the calls made for one file, given what fs::rename,
\* fs::copy and fs::remove_file would answer
DirStoreCalls(rename_ok, copy_ok, remove_ok) ==
    IF rename_ok THEN <<Call("rename", TRUE)>>
    ELSE IF ~copy_ok THEN <<Call("rename", FALSE), Call("copy", FALSE)>>
    ELSE <<Call("rename", FALSE), Call("copy", TRUE), Call("remove_file", remove_ok)>>

\* variant: a source that cannot be removed after the copy is an error too
DirStoreFails_RemoveFatal(rename_ok, copy_ok, remove_ok) ==
    ~rename_ok /\ (~copy_ok \/ ~remove_ok)

\* start lines 144-149: the only `return Err` of the directory loop
DirStoreFails(rename_ok, copy_ok, remove_ok) == ~rename_ok /\ ~copy_ok

\* the file has left the working directory
DirSourceGone(rename_ok, copy_ok, remove_ok) ==
    rename_ok \/ (copy_ok /\ remove_ok)

\* start lines 134-152, one file
DirStoreFile ==
    /\ pc = "dir_store"
    /\ idx <= Len(files_to_move_to_destination)
    /\ LET file == files_to_move_to_destination[idx]
       IN  \E rename_ok, copy_ok, remove_ok \in BOOLEAN :
              /\ storeLog' = Logged(file, DirStoreCalls(rename_ok, copy_ok, remove_ok))
              /\ disk' = IF DirSourceGone(rename_ok, copy_ok, remove_ok)
                         THEN disk \ {file} ELSE disk
              /\ IF DirStoreFails(rename_ok, copy_ok, remove_ok)
                 THEN Abort("dir_store", "Err") /\ UNCHANGED idx
                 ELSE /\ pc' = StorePc("dir_store", idx + 1,
                                       files_to_move_to_destination,
                                       temporary_files)
                      /\ idx' = IF idx + 1 <= Len(files_to_move_to_destination)
                                THEN idx + 1 ELSE 1
                      /\ UNCHANGED <<result, failedAt>>
    /\ UNCHANGED <<archiveIdx, archive, real_archive_name,
                   files_to_move_to_destination, temporary_files,
                   tar_entries, created, dump_codes, others>>

\* start lines 159-188: the calls made for one file, given what fs::metadata,
\* put_object and the queued FsPool::delete would answer
S3StoreCalls(metadata_ok, put_ok, delete_ok) ==
    IF ~metadata_ok THEN <<Call("metadata", FALSE)>>
    ELSE IF ~put_ok THEN <<Call("metadata", TRUE), Call("put_object", FALSE)>>
    ELSE <<Call("metadata", TRUE), Call("put_object", TRUE), Call("delete", delete_ok)>>

\* variant: the local file is deleted whatever became of the upload
S3SourceGone_Always(metadata_ok, put_ok, delete_ok) == delete_ok

\* start lines 176-178: the local file is deleted after a successful upload only
S3SourceGone(metadata_ok, put_ok, delete_ok) == metadata_ok /\ put_ok /\ delete_ok

\* start lines 180-187: both Err arms only log
S3StoreFails(metadata_ok, put_ok, delete_ok) == FALSE

\* start lines 158-189, one file
S3StoreFile ==
    /\ pc = "s3"
    /\ idx <= Len(files_to_move_to_destination)
    /\ LET file == files_to_move_to_destination[idx]
       IN  \E metadata_ok, put_ok, delete_ok \in BOOLEAN :
              /\ storeLog' = Logged(file, S3StoreCalls(metadata_ok, put_ok, delete_ok))
              /\ disk' = IF S3SourceGone(metadata_ok, put_ok, delete_ok)
                         THEN disk \ {file} ELSE disk
              /\ IF S3StoreFails(metadata_ok, put_ok, delete_ok)
                 THEN Abort("s3_store", "Err") /\ UNCHANGED idx
                 ELSE /\ pc' = StorePc("s3", idx + 1, files_to_move_to_destination,
                                       temporary_files)
                      /\ idx' = IF idx + 1 <= Len(files_to_move_to_destination)
                                THEN idx + 1 ELSE 1
                      /\ UNCHANGED <<result, failedAt>>
    /\ UNCHANGED <<archiveIdx, archive, real_archive_name,
                   files_to_move_to_destination, temporary_files,
                   tar_entries, created, dump_codes, others>>

\* start lines 192-197: TcpStream::connect, Session::new, handshake and
\* userauth_password, each unwrap()ed
SSHSessionOps == <<"ssh_connect", "ssh_session", "ssh_handshake", "ssh_auth">>

SSHConnect ==
    /\ pc = "ssh_connect"
    /\ \/ \E k \in 1..Len(SSHSessionOps) : Abort(SSHSessionOps[k], "panic")
       \/ /\ pc' = StorePc("ssh", 1, files_to_move_to_destination, temporary_files)
          /\ UNCHANGED <<result, failedAt>>
    /\ idx' = 1
    /\ UNCHANGED <<archiveIdx, archive, real_archive_name,
                   files_to_move_to_destination, temporary_files, disk,
                   tar_entries, created, storeLog, dump_codes, others>>

\* start lines 200-218: the calls made for one file
SSHFileOps == <<"metadata", "ssh_scp_send", "ssh_open", "ssh_read", "ssh_write",
                "ssh_send_eof", "ssh_wait_eof", "ssh_close", "ssh_wait_close">>

\* the calls up to the one that fails (failing = 0: none fails)
SSHStoreCalls(failing) ==
    [k \in 1..(IF failing = 0 THEN Len(SSHFileOps) ELSE failing) |->
        Call(SSHFileOps[k], k # failing)]

\* start lines 204-218: every call but fs::metadata is unwrap()ed
SSHStoreFails(failing) == failing > 1

\* start lines 199-224, one file
SSHStoreFile ==
    /\ pc = "ssh"
    /\ idx <= Len(files_to_move_to_destination)
    /\ LET file == files_to_move_to_destination[idx]
       IN  \E failing \in 0..Len(SSHFileOps) :
              /\ storeLog' = Logged(file, SSHStoreCalls(failing))
              /\ IF SSHStoreFails(failing)
                 THEN Abort(SSHFileOps[failing], "panic") /\ UNCHANGED idx
                 ELSE /\ pc' = StorePc("ssh", idx + 1, files_to_move_to_destination,
                                       temporary_files)
                      /\ idx' = IF idx + 1 <= Len(files_to_move_to_destination)
                                THEN idx + 1 ELSE 1
                      /\ UNCHANGED <<result, failedAt>>
    /\ UNCHANGED <<archiveIdx, archive, real_archive_name,
                   files_to_move_to_destination, temporary_files, disk,
                   tar_entries, created, dump_codes, others>>

\* start lines 229-233: fs::remove_file of one temporary file
RemoveTemporaryFile ==
    /\ pc = "cleanup"
    /\ idx <= Len(temporary_files)
    /\ \E ok \in BOOLEAN :
          IF ok
          THEN /\ disk' = disk \ {temporary_files[idx]}
               /\ pc' = IF idx + 1 <= Len(temporary_files) THEN "cleanup"
                        ELSE "archive_end"
               /\ idx' = IF idx + 1 <= Len(temporary_files) THEN idx + 1 ELSE 1
               /\ UNCHANGED <<result, failedAt>>
          ELSE /\ Abort("remove_temporary", "Err")
               /\ UNCHANGED <<disk, idx>>
    /\ UNCHANGED <<archiveIdx, archive, real_archive_name,
                   files_to_move_to_destination, temporary_files,
                   tar_entries, created, storeLog, dump_codes, others>>

NextBackup ==
    \/ Setup
    \/ StartArchive
    \/ EndArchive
    \/ Finish
    \/ TarCreate
    \/ TarAppendDir
    \/ TarDumpDatabase
    \/ TarReturn
    \/ Bz2Archive
    \/ EncryptFile
    \/ EncryptDone
    \/ NoEncryption
    \/ DirCreate
    \/ DirStoreFile
    \/ S3StoreFile
    \/ SSHConnect
    \/ SSHStoreFile
    \/ RemoveTemporaryFile

SpecBackup == InitBackup /\ [][NextBackup]_vars

----------------------------------------------------------------------------
(* Properties of Backup::start                                             *)

\* the files the destination loop has taken up
Handed == {storeLog[k].file : k \in 1..Len(storeLog)}

DumpFilenames(a) == {build_dump_filename(a.databases[k]) : k \in 1..Len(a.databases)}

Called(e, op) == \E k \in 1..Len(e.calls) : e.calls[k].op = op
CallOk(e, op) == \E k \in 1..Len(e.calls) : e.calls[k].op = op /\ e.calls[k].ok
CallFailed(e, op) == \E k \in 1..Len(e.calls) : e.calls[k].op = op /\ ~e.calls[k].ok

\* C1: when the iteration of an archive with a destination ends without an
\* error, every file of the archive chain that the iteration created in the
\* working directory (<name>.tar, <name>.tar.bz2, the input of the encryption)
\* has been taken up by the destination loop or is no longer on disk.  (The
\* dump files of the claim are left out here: a dump that exits non-zero is
\* left behind as well.)
C1_NoOrphanOnSuccess ==
    (pc = "archive_end" /\ archive.kind # "None") =>
        \A f \in created \ DumpFilenames(archive) : f \in Handed \/ f \notin disk

\* C7: local-directory store.  For each file the copy is tried exactly when
\* the rename failed and the source is removed exactly when the copy
\* succeeded; start returns Err for a file exactly when its rename and its
\* copy both failed; a source that could not be removed stays on disk, is no
\* error, and the run goes on.
C7_DirectoryStoreFallback ==
    archive.kind = "Directory" =>
        /\ \A k \in 1..Len(storeLog) :
              LET e == storeLog[k]
                  fatal == result = "Err" /\ failedAt = "dir_store" /\ k = Len(storeLog)
              IN  /\ Called(e, "rename")
                  /\ Called(e, "copy") <=> CallFailed(e, "rename")
                  /\ Called(e, "remove_file") <=> CallOk(e, "copy")
                  /\ fatal <=> (CallFailed(e, "rename") /\ CallFailed(e, "copy"))
                  /\ CallFailed(e, "remove_file") => e.file \in disk
                  /\ (CallOk(e, "rename") \/ CallOk(e, "remove_file")) => e.file \notin disk
        /\ failedAt = "dir_store" => storeLog # <<>> /\ result = "Err"
        /\ (storeLog # <<>> /\ failedAt # "dir_store") =>
              \/ result = "running" /\ pc \in {"dir_store", "cleanup", "archive_end"}
              \/ result = "Err" /\ failedAt = "remove_temporary"

\* C7 witness: the rename failed, the copy succeeded, the source could not be
\* removed, and the archive's iteration has ended without an error
C7_Witness ==
    /\ pc = "archive_end"
    /\ result = "running"
    /\ \E k \in 1..Len(storeLog) :
          /\ storeLog[k].kind = "Directory"
          /\ CallFailed(storeLog[k], "rename")
          /\ CallOk(storeLog[k], "copy")
          /\ CallFailed(storeLog[k], "remove_file")

\* C8: object-store store.  No file is taken up twice and none is uploaded
\* more than once; a file whose metadata lookup or upload failed is still on
\* disk; no failure of the loop ends the run: it goes on with the next file,
\* the cleanup and the next archive.
C8_S3StoreFailuresSkipped ==
    archive.kind = "S3" =>
        /\ \A j, k \in 1..Len(storeLog) :
              j # k => storeLog[j].file # storeLog[k].file
        /\ \A k \in 1..Len(storeLog) :
              LET e == storeLog[k]
              IN  /\ Cardinality({c \in 1..Len(e.calls) : e.calls[c].op = "put_object"}) <= 1
                  /\ (CallFailed(e, "metadata") \/ CallFailed(e, "put_object"))
                        => e.file \in disk
        /\ storeLog # <<>> =>
              \/ result = "running" /\ pc \in {"s3", "cleanup", "archive_end"}
              \/ result = "Err" /\ failedAt = "remove_temporary"

\* C8 witness: an upload failed and the archive's iteration has ended without
\* an error, the next archive still to come
C8_Witness ==
    /\ pc = "archive_end"
    /\ result = "running"
    /\ archiveIdx < MaxArchives
    /\ \E k \in 1..Len(storeLog) :
          /\ storeLog[k].kind = "S3"
          /\ CallFailed(storeLog[k], "put_object")
          /\ storeLog[k].file \in disk

\* C9: no failure of the secure-copy store (connecting, authenticating,
\* opening the remote handle, reading the local file, writing to the remote)
\* ends the run
C9_SshFailuresNonFatal ==
    archive.kind = "SSH" =>
        ~(/\ result # "running"
          /\ failedAt \in Range(SSHSessionOps) \cup Range(SSHFileOps))

\* the operations of archive construction and encryption that C10 names
ConstructionStages ==
    {"tar_create", "tar_append_dir", "dump_spawn", "dump_wait", "dump_open",
     "dump_append", "dump_remove", "bz2_read", "bz2_write", "bz2_finish",
     "encrypt_spawn", "encrypt_wait", "encrypt_exit_code", "encrypt_no_status"}

\* C10: a failure during archive construction or encryption makes
\* Backup::start return an error, and nothing more is executed
C10_ConstructionFailureReturnsErr ==
    failedAt \in ConstructionStages => (result = "Err" /\ pc = "done")

----------------------------------------------------------------------------
(* The archive name from backup to restore                                 *)
(*                                                                         *)
(* Backup::start resolves the template and appends the suffixes while it   *)
(* builds the file; download_from_{s3,ssh}_to_tmp strips them from the     *)
(* downloaded key; Restore::start appends them again to name the file it   *)
(* decrypts and decompresses.                                              *)

Segments == {"w-", ".tar", ".enc", PH_YEAR, PH_MONTH, PH_DAY, PH_WEEKDAY}

RECURSIVE Concat(_)
Concat(segs) == IF segs = <<>> THEN "" ELSE Head(segs) \o Concat(Tail(segs))

\* archive names of one to MaxSegments segments
NameTemplates == {Concat(segs) : segs \in SeqsUpTo(Segments, MaxSegments) \ {<<>>}}

NameArchives ==
    [name : NameTemplates,
     compression : Compressions,
     encryption : BOOLEAN,
     kind : {"S3"},
     directories : {<<>>},
     databases : {<<>>}]

\* variant: the week starts on Sunday
build_possible_archive_names_SundayFirst(name) ==
    IF Find(name, PH_WEEKDAY) # 0
    THEN [k \in 1..7 |-> Replace(name, PH_WEEKDAY, Weekdays[((k + 5) % 7) + 1])]
    ELSE <<name>>

\* restore/mod.rs 14-69: seven pushes of Regex::replace (the first match),
\* the template itself when nothing was pushed
build_possible_archive_names(name) ==
    LET pushed == IF Find(name, PH_WEEKDAY) # 0
                  THEN [k \in 1..7 |-> Replace(name, PH_WEEKDAY, Weekdays[k])]
                  ELSE <<>>
    IN  IF Len(pushed) = 0 THEN <<name>> ELSE pushed

\* destination.rs 267-279 / 371-383: the name download_*_to_tmp returns
StripEncryption(a, filename) ==
    IF a.encryption /\ EndsWith(filename, EncryptionExt)
    THEN SubSeq(filename, 1, Len(filename) - Len(EncryptionExt))
    ELSE filename

StripCompression(a, filename) ==
    LET comp_ext == CompressionExt(a.compression)
    IN  IF EndsWith(filename, comp_ext)
        THEN SubSeq(filename, 1, Len(filename) - Len(comp_ext))
        ELSE filename

\* variant: the compression extension is stripped before ".enc"
StripExtensions_CompressionFirst(a, archive_filename) ==
    StripEncryption(a, StripCompression(a, archive_filename))

StripExtensions(a, archive_filename) ==
    StripCompression(a, StripEncryption(a, archive_filename))

\* restore/mod.rs 133-139: full_path, and encrypted_filename when encrypted
RestoreFullPath(a, archive_filename) ==
    archive_filename \o CompressionExt(a.compression)

RestoreInputFile(a, archive_filename) ==
    IF a.encryption
    THEN RestoreFullPath(a, archive_filename) \o ".enc"
    ELSE RestoreFullPath(a, archive_filename)

InitNames ==
    /\ RoundTripIdle
    /\ StreamIdle
    /\ TransferIdle
    /\ ProgressIdle
    /\ ExtractIdle
    /\ RestoreIdle
    /\ BackupIdle
    /\ LocateIdle
    /\ FetchIdle
    /\ n_pc = "start"
    /\ n_archive \in NameArchives
    /\ n_now \in Dates
    /\ n_file = ""
    /\ n_archive_name = ""
    /\ n_full_path = ""
    /\ possible_archive_names = <<>>

n_others == <<bvars, lvars, fvars, rvars, xvars, pvars, tvars, svars, dvars>>

\* backup/mod.rs 71
NResolve ==
    /\ n_pc = "start"
    /\ n_file' = build_real_archive_name(n_archive.name, n_now)
    /\ n_pc' = "resolved"
    /\ UNCHANGED <<n_archive, n_now, n_archive_name, n_full_path,
                   possible_archive_names, n_others>>

\* backup/mod.rs 77, 226-236: compression none builds and stores no file
NNoFile ==
    /\ n_pc = "resolved"
    /\ n_archive.compression = "None"
    /\ n_pc' = "done"
    /\ UNCHANGED <<n_archive, n_now, n_file, n_archive_name, n_full_path,
                   possible_archive_names, n_others>>

\* backup/mod.rs 79-88, 305
NTar ==
    /\ n_pc = "resolved"
    /\ n_archive.compression \in {"Tar", "TarBZ2"}
    /\ n_file' = TarName(n_file)
    /\ n_pc' = "tar"
    /\ UNCHANGED <<n_archive, n_now, n_archive_name, n_full_path,
                   possible_archive_names, n_others>>

\* backup/mod.rs 95-105, 240
NBz2 ==
    /\ n_pc = "tar"
    /\ n_file' = IF n_archive.compression = "TarBZ2" THEN Bz2Name(n_file) ELSE n_file
    /\ n_pc' = "compressed"
    /\ UNCHANGED <<n_archive, n_now, n_archive_name, n_full_path,
                   possible_archive_names, n_others>>

\* backup/mod.rs 108-124; the file is then handed over under this name
\* (object key, line 162; scp_send path, line 204)
NEncrypt ==
    /\ n_pc = "compressed"
    /\ n_file' = IF n_archive.encryption THEN EncName(n_file) ELSE n_file
    /\ n_pc' = "stored"
    /\ UNCHANGED <<n_archive, n_now, n_archive_name, n_full_path,
                   possible_archive_names, n_others>>

\* destination.rs 169, 267-279: the key is downloaded and its suffixes stripped
NDownload ==
    /\ n_pc = "stored"
    /\ n_archive_name' = StripExtensions(n_archive, n_file)
    /\ n_pc' = "stripped"
    /\ UNCHANGED <<n_archive, n_now, n_file, n_full_path,
                   possible_archive_names, n_others>>

\* restore/mod.rs 132-151
NRestore ==
    /\ n_pc = "stripped"
    /\ n_full_path' = RestoreInputFile(n_archive, n_archive_name)
    /\ n_pc' = "done"
    /\ UNCHANGED <<n_archive, n_now, n_file, n_archive_name,
                   possible_archive_names, n_others>>

\* restore/mod.rs 124-125
NCandidates ==
    /\ n_pc = "start"
    /\ possible_archive_names' = build_possible_archive_names(n_archive.name)
    /\ n_pc' = "candidates"
    /\ UNCHANGED <<n_archive, n_now, n_file, n_archive_name, n_full_path,
                   n_others>>

NextNames ==
    \/ NResolve
    \/ NNoFile
    \/ NTar
    \/ NBz2
    \/ NEncrypt
    \/ NDownload
    \/ NRestore
    \/ NCandidates

SpecNames == InitNames /\ [][NextNames]_vars

\* the name resolve(template) of the backup run
ResolvedName == build_real_archive_name(n_archive.name, n_now)

\* C2: the file backup hands to the destination is named resolve(template)
\* + ".tar" (+ ".bz2" for tar+bzip2) (+ ".enc" with encryption), in that
\* order; stripping on restore (".enc" first, then the compression
\* extension) gives resolve(template) back, and appending the configured
\* extensions again gives the stored file name.
C2_SuffixRoundTrip ==
    /\ n_pc \in {"stored", "stripped"} \/ (n_pc = "done" /\ n_archive.compression # "None")
          => n_file = ResolvedName \o ".tar"
                        \o (IF n_archive.compression = "TarBZ2" THEN ".bz2" ELSE "")
                        \o (IF n_archive.encryption THEN ".enc" ELSE "")
    /\ n_pc = "stripped" \/ (n_pc = "done" /\ n_archive.compression # "None")
          => n_archive_name = ResolvedName
    /\ (n_pc = "done" /\ n_archive.compression # "None")
          => n_full_path = n_file

\* a tar+bzip2, encrypted archive whose resolved name itself ends in a suffix,
\* stored, stripped and named again by restore
C2_Witness ==
    /\ n_pc = "done"
    /\ n_archive.compression = "TarBZ2"
    /\ n_archive.encryption
    /\ EndsWith(ResolvedName, ".enc")
    /\ n_full_path = ResolvedName \o ".tar.bz2.enc"

\* C3: build_possible_archive_names never returns an empty sequence; for a
\* template with the weekday placeholder it returns 7 pairwise distinct
\* names, the k-th carrying the k-th weekday of Mon..Sun where the
\* placeholder stood; for every other template it returns the template alone.
C3_CandidatesShape ==
    n_pc = "candidates" =>
        LET name == n_archive.name
            names == possible_archive_names
            p == Find(name, PH_WEEKDAY)
            MonFirst == <<"Mon", "Tue", "Wed", "Thu", "Fri", "Sat", "Sun">>
        IN  /\ Len(names) > 0
            /\ IF p # 0
               THEN /\ Len(names) = 7
                    /\ \A j, k \in 1..7 : j # k => names[j] # names[k]
                    /\ \A k \in 1..7 :
                          names[k] = SubSeq(name, 1, p - 1) \o MonFirst[k]
                                       \o SubSeq(name, p + Len(PH_WEEKDAY), Len(name))
               ELSE names = <<name>>

\* candidates of a weekday template, and of a template with a year placeholder
C3_Witness ==
    /\ n_pc = "candidates"
    /\ Len(possible_archive_names) = 7
    /\ Find(n_archive.name, PH_YEAR) # 0

----------------------------------------------------------------------------
(* Restore::get_newest_archive_name_in_directory, src/restore/mod.rs 71-108 *)
(*                                                                         *)
(* An Option is a sequence: <<>> is None, <<x>> is Some(x).  The           *)
(* filesystem maps a file name to the outcome of metadata.created():       *)
(* <<t>> for Ok(t), <<>> for Err (no creation time on this platform or     *)
(* filesystem).  A name outside its domain has no metadata.                *)

LocateTemplates == {"weekly-{date:weekday}", "daily"}

LocateArchives ==
    [name : LocateTemplates,
     compression : {"Tar"},
     encryption : BOOLEAN,
     kind : {"Directory"},
     path : {"/backups"},
     directories : {<<>>},
     databases : {<<>>}]

\* the files a destination directory may hold: all plain or all encrypted
LocateFileNames(ext) ==
    {"/backups/" \o base \o ext :
        base \in {"weekly-Mon", "weekly-Tue", "weekly-Sun", "daily"}}

CreatedOutcomes == {<<>>} \cup {<<t>> : t \in 1..MaxTime}

Filesystems ==
    UNION {[S -> CreatedOutcomes] :
              S \in UNION {{T \in SUBSET LocateFileNames(ext) : Cardinality(T) <= MaxFiles} :
                              ext \in {".tar", ".tar.enc"}}}

\* lines 79-87
full_filename(a, name) ==
    LET plain == a.path \o "/" \o name \o CompressionExt(a.compression)
    IN  IF a.encryption THEN plain \o EncryptionExt ELSE plain

\* line 92: created > newest_archive.1
IsNewer(created_time, newest_time) == created_time > newest_time

InitLocate ==
    /\ RoundTripIdle
    /\ StreamIdle
    /\ TransferIdle
    /\ ProgressIdle
    /\ ExtractIdle
    /\ RestoreIdle
    /\ BackupIdle
    /\ NamesIdle
    /\ FetchIdle
    /\ l_pc = "loop"
    /\ l_archive \in LocateArchives
    /\ l_dir \in Filesystems
    /\ l_idx = 0
    /\ newest_archive_opt = <<>>
    /\ l_return = <<>>

l_others == <<bvars, nvars, fvars, rvars, xvars, pvars, tvars, svars, dvars>>

LocateNames == build_possible_archive_names(l_archive.name)

\* lines 79-101: the body of the for-loop for one candidate name
Examine(a, dir, name, newest) ==
    LET file == full_filename(a, name)
    IN  IF file \notin DOMAIN dir THEN newest                \* metadata Err
        ELSE IF dir[file] = <<>> THEN newest                 \* created Err
        ELSE LET candidate == [name |-> name, created |-> dir[file][1]]
             IN  IF newest = <<>> THEN <<candidate>>
                 ELSE IF IsNewer(candidate.created, newest[1].created)
                      THEN <<candidate>>
                      ELSE newest

\* lines 78-102: one candidate of the for-loop
LExamine ==
    /\ l_pc = "loop"
    /\ l_idx < Len(LocateNames)
    /\ newest_archive_opt' =
          Examine(l_archive, l_dir, LocateNames[l_idx + 1], newest_archive_opt)
    /\ l_idx' = l_idx + 1
    /\ UNCHANGED <<l_pc, l_archive, l_dir, l_return, l_others>>

\* lines 104-107
LReturn ==
    /\ l_pc = "loop"
    /\ l_idx = Len(LocateNames)
    /\ l_return' = IF newest_archive_opt = <<>> THEN <<>>
                   ELSE <<newest_archive_opt[1].name>>
    /\ l_pc' = "returned"
    /\ UNCHANGED <<l_archive, l_dir, l_idx, newest_archive_opt, l_others>>

NextLocate ==
    \/ LExamine
    \/ LReturn

SpecLocate == InitLocate /\ [][NextLocate]_vars

\* positions of the candidates whose file exists / has a readable creation time
ExistingCandidates ==
    {k \in 1..Len(LocateNames) : full_filename(l_archive, LocateNames[k]) \in DOMAIN l_dir}

ReadableCandidates ==
    {k \in ExistingCandidates : l_dir[full_filename(l_archive, LocateNames[k])] # <<>>}

CreatedOf(k) == l_dir[full_filename(l_archive, LocateNames[k])][1]

\* the earliest candidate among those of `among` with the newest creation time
NewestOf(among) ==
    CHOOSE k \in among :
        /\ \A j \in among : CreatedOf(j) <= CreatedOf(k)
        /\ \A j \in among : CreatedOf(j) = CreatedOf(k) => k <= j

\* C4: the result is none exactly when no candidate file exists;
\* otherwise it is the candidate, among the existing files, with the newest
\* creation time, the earlier candidate on a tie.
C4_NewestOfExisting ==
    l_pc = "returned" =>
        /\ l_return = <<>> <=> ExistingCandidates = {}
        /\ ExistingCandidates # {} =>
              /\ ReadableCandidates # {}
              /\ l_return = <<LocateNames[NewestOf(ReadableCandidates)]>>

\* what the loop computes: files whose creation time cannot be read are
\* passed over like missing ones
LocateNewestOfReadable ==
    l_pc = "returned" =>
        /\ l_return = <<>> <=> ReadableCandidates = {}
        /\ ReadableCandidates # {} =>
              l_return = <<LocateNames[NewestOf(ReadableCandidates)]>>

----------------------------------------------------------------------------
(* Destination::download_from_s3_to_tmp / download_from_ssh_to_tmp,        *)
(* src/configuration/destination.rs 60-384                                 *)
(*                                                                         *)
(* A NaiveDateTime is a day number and the milliseconds of that day (the   *)
(* timestamps below carry at most three fractional digits).                *)

\* the characters of s are decimal digits, and there is at least one
RECURSIVE IsDigits(_)
IsDigits(s) ==
    /\ Len(s) > 0
    /\ Find("0123456789", SubSeq(s, 1, 1)) # 0
    /\ Len(s) = 1 \/ IsDigits(SubSeq(s, 2, Len(s)))

RECURSIVE ToNumber(_)
ToNumber(s) ==
    IF Len(s) = 0 THEN 0
    ELSE 10 * ToNumber(SubSeq(s, 1, Len(s) - 1))
           + (Find("0123456789", SubSeq(s, Len(s), Len(s))) - 1)

\* days since 1970-01-01 of a proleptic Gregorian date
DaysFromCivil(y, m, d) ==
    LET yy == IF m <= 2 THEN y - 1 ELSE y
        era == yy \div 400
        yoe == yy - era * 400
        mp == IF m > 2 THEN m - 3 ELSE m + 9
        doy == (153 * mp + 2) \div 5 + d - 1
        doe == yoe * 365 + yoe \div 4 - yoe \div 100 + doy
    IN  era * 146097 + doe - 719468

DaysInMonth(y, m) ==
    IF m = 2 THEN (IF (y % 4 = 0 /\ y % 100 # 0) \/ y % 400 = 0 THEN 29 ELSE 28)
    ELSE IF m \in {4, 6, 9, 11} THEN 30 ELSE 31

\* "%.f": nothing, or a dot and digits; the value in milliseconds
FractionOk(f) == f = "" \/ (SubSeq(f, 1, 1) = "." /\ IsDigits(SubSeq(f, 2, Len(f))))

FractionMillis(f) ==
    IF f = "" THEN 0 ELSE ToNumber(SubSeq(SubSeq(f, 2, Len(f)) \o "00", 1, 3))

\* NaiveDateTime::parse_from_str(modified, "%Y-%m-%dT%H:%M:%S%.fZ"), line 104
ParseTimestamp(t) ==
    IF Len(t) < 20 THEN <<>>
    ELSE LET Y == SubSeq(t, 1, 4)
             M == SubSeq(t, 6, 7)
             D == SubSeq(t, 9, 10)
             h == SubSeq(t, 12, 13)
             mi == SubSeq(t, 15, 16)
             sec == SubSeq(t, 18, 19)
             f == SubSeq(t, 20, Len(t) - 1)
             layout == /\ SubSeq(t, 5, 5) = "-" /\ SubSeq(t, 8, 8) = "-"
                       /\ SubSeq(t, 11, 11) = "T"
                       /\ SubSeq(t, 14, 14) = ":" /\ SubSeq(t, 17, 17) = ":"
                       /\ SubSeq(t, Len(t), Len(t)) = "Z"
                       /\ IsDigits(Y) /\ IsDigits(M) /\ IsDigits(D)
                       /\ IsDigits(h) /\ IsDigits(mi) /\ IsDigits(sec)
                       /\ FractionOk(f)
         IN  IF ~layout THEN <<>>
             ELSE IF \/ ToNumber(M) \notin 1..12
                     \/ ToNumber(D) \notin 1..DaysInMonth(ToNumber(Y), ToNumber(M))
                     \/ ToNumber(h) > 23 \/ ToNumber(mi) > 59 \/ ToNumber(sec) > 59
                  THEN <<>>
                  ELSE <<[date |-> DaysFromCivil(ToNumber(Y), ToNumber(M), ToNumber(D)),
                          ms |-> ((ToNumber(h) * 60 + ToNumber(mi)) * 60 + ToNumber(sec)) * 1000
                                   + FractionMillis(f)]>>

\* DateTime::from_timestamp(modified as i64, 0).naive_utc(), line 318
FromTimestamp(secs) ==
    <<[date |-> secs \div 86400, ms |-> (secs % 86400) * 1000]>>

\* last_known_datetime.sub(current_datetime), in milliseconds
SubMillis(a, b) == (a.date - b.date) * 86400000 + (a.ms - b.ms)

\* Duration::num_seconds: whole seconds, rounded toward zero
num_seconds(millis) ==
    IF millis >= 0 THEN millis \div 1000 ELSE -((-millis) \div 1000)

\* lines 63-73 / 283-293: archive.name.find("{")
prefix_opt(name) ==
    LET k == Find(name, "{")
    IN  IF k > 1 THEN <<SubSeq(name, 1, k - 1)>> ELSE <<>>

FetchTemplates == {"w-{date:weekday}", "daily", "{date:year}-db"}

FetchArchives ==
    [name : FetchTemplates,
     compression : {"Tar"},
     encryption : {FALSE},
     kind : {"S3", "SSH"},
     directories : {<<>>},
     databases : {<<>>}]

RemoteKeys == {"w-Mon.tar", "w-Tue.tar", "daily.tar"}

\* rusoto_s3::Object: key and last_modified are Option<String>
S3Stamps == {"2024-03-07T10:00:00.000Z", "2024-03-07T10:00:00.500Z",
             "2024-03-07T10:00:01Z", "yesterday"}

S3Objects ==
    [key : {<<>>} \cup {<<k>> : k \in RemoteKeys},
     last_modified : {<<>>} \cup {<<t>> : t \in S3Stamps}]

\* ssh2 readdir entry: path and FileStat.mtime (Option<u64>, seconds)
SSHEntries ==
    [key : {<<k>> : k \in RemoteKeys},
     mtime : {<<>>, <<1709805600>>, <<1709805601>>}]

\* a bucket or a remote directory holds a name once
DistinctKeys(objs) ==
    \A j, k \in 1..Len(objs) :
        (j # k /\ objs[j].key # <<>>) => objs[j].key # objs[k].key

Remotes(Objs) == {objs \in SeqsUpTo(Objs, MaxObjects) : DistinctKeys(objs)}

InitFetch ==
    /\ RoundTripIdle
    /\ StreamIdle
    /\ TransferIdle
    /\ ProgressIdle
    /\ ExtractIdle
    /\ RestoreIdle
    /\ BackupIdle
    /\ NamesIdle
    /\ LocateIdle
    /\ f_pc = "start"
    /\ f_archive \in FetchArchives
    /\ \/ f_archive.kind = "S3" /\ f_remote \in Remotes(S3Objects)
       \/ f_archive.kind = "SSH" /\ f_remote \in Remotes(SSHEntries)
    /\ contents = <<>>
    /\ f_idx = 0
    /\ last_known_key_opt = <<>>
    /\ last_known_datetime_opt = <<>>
    /\ f_return = "running"

f_others == <<bvars, nvars, lvars, rvars, xvars, pvars, tvars, svars, dvars>>

\* the objects a ListObjectsV2 request with this prefix returns
ListedUnder(prefix, objs) ==
    LET Matches(o) == prefix = <<>> \/ (o.key # <<>> /\ StartsWith(o.key[1], prefix[1]))
    IN  SelectSeq(objs, Matches)

\* lines 74-91: list_objects_v2 with `?`, contents None => Ok(None)
FListS3 ==
    /\ f_pc = "start"
    /\ f_archive.kind = "S3"
    /\ \E ok \in BOOLEAN :
          LET listed == ListedUnder(prefix_opt(f_archive.name), f_remote)
          IN  IF ~ok
              THEN f_return' = "Err" /\ f_pc' = "done" /\ UNCHANGED contents
              ELSE IF listed = <<>>
              THEN f_return' = "Ok(None)" /\ f_pc' = "done" /\ UNCHANGED contents
              ELSE contents' = listed /\ f_pc' = "loop" /\ UNCHANGED f_return
    /\ UNCHANGED <<f_archive, f_remote, f_idx, last_known_key_opt,
                   last_known_datetime_opt, f_others>>

SSHFetchOps == <<"ssh_connect", "ssh_session", "ssh_handshake", "ssh_auth",
                 "ssh_sftp", "ssh_readdir">>

\* lines 295-303: every call is unwrap()ed
FListSSH ==
    /\ f_pc = "start"
    /\ f_archive.kind = "SSH"
    /\ \E failing \in 0..Len(SSHFetchOps) :
          IF failing = 0
          THEN contents' = f_remote /\ f_pc' = "loop" /\ UNCHANGED f_return
          ELSE f_return' = "panic" /\ f_pc' = "done" /\ UNCHANGED contents
    /\ UNCHANGED <<f_archive, f_remote, f_idx, last_known_key_opt,
                   last_known_datetime_opt, f_others>>

\* lines 97-100 (key None => continue) / 310-314 (prefix test)
Skipped(a, content) ==
    IF a.kind = "S3" THEN content.key = <<>>
    ELSE LET prefix == prefix_opt(a.name)
         IN  prefix # <<>> /\ ~StartsWith(content.key[1], prefix[1])

\* lines 102-111 / 316-324
current_datetime_opt(a, content) ==
    IF a.kind = "S3"
    THEN IF content.last_modified = <<>> THEN <<>>
         ELSE ParseTimestamp(content.last_modified[1])
    ELSE IF content.mtime = <<>> THEN <<>>
         ELSE FromTimestamp(content.mtime[1])

\* lines 116-117 / 329-330: datetime_diff.num_seconds() < 0
Replaces(last_known_datetime, current_datetime) ==
    num_seconds(SubMillis(last_known_datetime, current_datetime)) < 0

\* lines 96-132 / 308-345: one entry of the listing
FSelect ==
    /\ f_pc = "loop"
    /\ f_idx < Len(contents)
    /\ LET content == contents[f_idx + 1]
           current == current_datetime_opt(f_archive, content)
           take == /\ ~Skipped(f_archive, content)
                   /\ current # <<>>
                   /\ \/ last_known_datetime_opt = <<>>
                      \/ Replaces(last_known_datetime_opt[1], current[1])
       IN  IF take
           THEN /\ last_known_datetime_opt' = current
                /\ last_known_key_opt' = content.key
           ELSE UNCHANGED <<last_known_datetime_opt, last_known_key_opt>>
    /\ f_idx' = f_idx + 1
    /\ UNCHANGED <<f_pc, f_archive, f_remote, contents, f_return, f_others>>

\* lines 134-140 / 347-353
FSelected ==
    /\ f_pc = "loop"
    /\ f_idx = Len(contents)
    /\ IF last_known_key_opt = <<>>
       THEN f_return' = "Ok(None)" /\ f_pc' = "done"
       ELSE f_pc' = "download" /\ UNCHANGED f_return
    /\ UNCHANGED <<f_archive, f_remote, contents, f_idx, last_known_key_opt,
                   last_known_datetime_opt, f_others>>

\* lines 143-279: get_object `?`, body None => Ok(None), create/read/write `?`
\* lines 359-383: sftp.open and read unwrap()ed, create/write `?`
DownloadOutcomes(kind) ==
    IF kind = "S3"
    THEN {[op |-> "get_object", as |-> "Err"], [op |-> "body", as |-> "Ok(None)"],
          [op |-> "create", as |-> "Err"], [op |-> "read_buf", as |-> "Err"],
          [op |-> "write_all", as |-> "Err"], [op |-> "none", as |-> "Ok(Some)"]}
    ELSE {[op |-> "sftp_open", as |-> "panic"], [op |-> "create", as |-> "Err"],
          [op |-> "read", as |-> "panic"], [op |-> "write_all", as |-> "Err"],
          [op |-> "none", as |-> "Ok(Some)"]}

FDownload ==
    /\ f_pc = "download"
    /\ \E outcome \in DownloadOutcomes(f_archive.kind) : f_return' = outcome.as
    /\ f_pc' = "done"
    /\ UNCHANGED <<f_archive, f_remote, contents, f_idx, last_known_key_opt,
                   last_known_datetime_opt, f_others>>

NextFetch ==
    \/ FListS3
    \/ FListSSH
    \/ FSelect
    \/ FSelected
    \/ FDownload

SpecFetch == InitFetch /\ [][NextFetch]_vars

\* entries of the listing with a key and a parseable last-modified timestamp
UsableObjects ==
    {k \in 1..Len(contents) :
        /\ contents[k].key # <<>>
        /\ current_datetime_opt(f_archive, contents[k]) # <<>>}

TimestampOf(k) == current_datetime_opt(f_archive, contents[k])[1]

\* the first entry, in list order, that carries the maximal timestamp
FirstLatest(among) ==
    CHOOSE k \in among :
        /\ \A j \in among : SubMillis(TimestampOf(k), TimestampOf(j)) >= 0
        /\ \A j \in among : SubMillis(TimestampOf(k), TimestampOf(j)) = 0 => k <= j

\* C5: the object-store selection picks, among the listed objects with a key
\* and a parseable timestamp, the first one in list order that carries the
\* maximal timestamp, compared at full precision (fractions of a second
\* included); an object without a usable timestamp is never selected and
\* never ends the fetch with an error.
C5_SelectsLatestTimestamp ==
    f_archive.kind = "S3" =>
        /\ f_pc = "loop" => f_return = "running"
        /\ (f_pc \in {"loop", "download", "done"} /\ contents # <<>> /\ f_idx = Len(contents)) =>
              /\ UsableObjects = {} => last_known_key_opt = <<>>
              /\ UsableObjects # {} =>
                    last_known_key_opt = contents[FirstLatest(UsableObjects)].key

PlaceholderPositions(name) ==
    {Find(name, ph) : ph \in {PH_YEAR, PH_MONTH, PH_DAY, PH_WEEKDAY}} \ {0}

\* the template up to its first placeholder, the whole template without one
LiteralPortion(name) ==
    IF PlaceholderPositions(name) = {} THEN name
    ELSE LET first == CHOOSE k \in PlaceholderPositions(name) :
                          \A j \in PlaceholderPositions(name) : k <= j
         IN  SubSeq(name, 1, first - 1)

\* C6: every entry the selection loop of the object-store and secure-copy
\* fetch considers, and so the one it selects and downloads, has a name that
\* begins with the literal portion of the template before its first
\* placeholder (the whole template when it holds no placeholder).
C6_ConsideredUnderLiteralPrefix ==
    f_archive.kind \in {"S3", "SSH"} =>
        /\ \A k \in 1..f_idx :
              ~Skipped(f_archive, contents[k]) =>
                  StartsWith(contents[k].key[1], LiteralPortion(f_archive.name))
        /\ last_known_key_opt # <<>> =>
              StartsWith(last_known_key_opt[1], LiteralPortion(f_archive.name))

----------------------------------------------------------------------------
(* Properties of the database dumps of tar_archive                         *)

\* the dump command of this step was waited for and left an exit code
DumpWaited == Len(dump_codes') > Len(dump_codes)

LastDump == dump_codes'[Len(dump_codes')]

----------------------------------------------------------------------------
(* Restore::start, src/restore/mod.rs 114-165                              *)
(*                                                                         *)
(* The filesystem maps an absolute path to the creation time of the file   *)
(* (as in the directory search above).  After set_current_dir a relative   *)
(* name is a file of the working directory.                                *)

WorkingDirectory == "/work"

InWorkingDirectory(name) ==
    IF StartsWith(name, "/") THEN name ELSE WorkingDirectory \o "/" \o name

Exists(fs, name) == InWorkingDirectory(name) \in DOMAIN fs

\* File::create / a command writing its output file
WriteFile(fs, name) ==
    [f \in DOMAIN fs \cup {InWorkingDirectory(name)} |->
        IF f \in DOMAIN fs THEN fs[f] ELSE <<1>>]

\* fs::remove_file
RemoveFile(fs, name) ==
    [f \in DOMAIN fs \ {InWorkingDirectory(name)} |-> fs[f]]

\* Regex "\.enc$" / "\.bz2$" replace(file, "")
StripSuffix(file, suffix) ==
    IF EndsWith(file, suffix) THEN SubSeq(file, 1, Len(file) - Len(suffix)) ELSE file

RestoreArchives ==
    [name : {"w-{date:weekday}"},
     compression : Compressions,
     encryption : BOOLEAN,
     kind : DestinationKinds,
     path : {"/backups", WorkingDirectory},
     directories : {<<>>},
     databases : {<<[name |-> "shop", kind |-> "MySql"]>>}]

\* the suffixes backup gave the stored file
StoredSuffix(a) ==
    CompressionExt(a.compression) \o (IF a.encryption THEN EncryptionExt ELSE "")

\* what the destination directory of a local-directory archive may hold
DestinationContents(a) ==
    LET mon == full_filename(a, "w-Mon")
        tue == full_filename(a, "w-Tue")
    IN  {<<>>,
         [f \in {mon} |-> <<1>>],
         [f \in {mon} |-> <<>>],
         [f \in {mon, tue} |-> IF f = mon THEN <<1>> ELSE <<2>>]}

\* the keys fetch_latest may select in the bucket / remote directory
DownloadKeys(a) == {"w-Mon" \o StoredSuffix(a), "w-Tue.tar"}

\* destination.rs 60-384: how download_to_tmp can end; `file` tells whether
\* File::create made the local file before
FetchOutcomes(kind) ==
    IF kind = "S3"
    THEN {[op |-> "list_objects", as |-> "Err", file |-> FALSE],
          [op |-> "none", as |-> "Ok(None)", file |-> FALSE],
          [op |-> "get_object", as |-> "Err", file |-> FALSE],
          [op |-> "create", as |-> "Err", file |-> FALSE],
          [op |-> "read_buf", as |-> "Err", file |-> TRUE],
          [op |-> "write_all", as |-> "Err", file |-> TRUE],
          [op |-> "none", as |-> "Ok(Some)", file |-> TRUE]}
    ELSE {[op |-> "ssh_connect", as |-> "panic", file |-> FALSE],
          [op |-> "ssh_handshake", as |-> "panic", file |-> FALSE],
          [op |-> "ssh_auth", as |-> "panic", file |-> FALSE],
          [op |-> "ssh_readdir", as |-> "panic", file |-> FALSE],
          [op |-> "none", as |-> "Ok(None)", file |-> FALSE],
          [op |-> "sftp_open", as |-> "panic", file |-> FALSE],
          [op |-> "create", as |-> "Err", file |-> FALSE],
          [op |-> "read", as |-> "panic", file |-> TRUE],
          [op |-> "write_all", as |-> "Err", file |-> TRUE],
          [op |-> "none", as |-> "Ok(Some)", file |-> TRUE]}

\* variant: a fetch that found nothing still names a file
download_to_tmp_result_AlwaysSome(a, outcome, key) == <<StripExtensions(a, key)>>

\* destination.rs 134-140, 274-279, 319-322, 382: what download_to_tmp returns
\* when it returns Ok
download_to_tmp_result(a, outcome, key) ==
    IF outcome.as = "Ok(Some)" THEN <<StripExtensions(a, key)>> ELSE <<>>

RECURSIVE get_newest_archive_name_in_directory(_, _, _, _)
get_newest_archive_name_in_directory(names, a, dir, newest) ==
    IF names = <<>>
    THEN (IF newest = <<>> THEN <<>> ELSE <<newest[1].name>>)
    ELSE get_newest_archive_name_in_directory(
             Tail(names), a, dir, Examine(a, dir, Head(names), newest))

InitRestore ==
    /\ RoundTripIdle
    /\ StreamIdle
    /\ TransferIdle
    /\ ProgressIdle
    /\ ExtractIdle
    /\ BackupIdle
    /\ NamesIdle
    /\ LocateIdle
    /\ FetchIdle
    /\ r_pc = "setup"
    /\ r_result = "running"
    /\ r_failedAt = "none"
    /\ r_archiveIdx = 0
    /\ r_archive = NoArchive
    /\ archive_filename_opt = <<>>
    /\ temporary_files_to_remove = <<>>
    /\ r_idx = 0
    /\ r_fs = <<>>
    /\ r_created = {}
    /\ r_log = <<>>

r_others == <<bvars, nvars, lvars, fvars, xvars, pvars, tvars, svars, dvars>>

RLogged(op, ok) == Append(r_log, [archive |-> r_archiveIdx, op |-> op, ok |-> ok])

\* the run ends at operation `stage`: how = "Err" (returned) or "panic" (unwrap)
RAbort(stage, how) ==
    /\ r_pc' = "done"
    /\ r_result' = how
    /\ r_failedAt' = stage

\* lines 115-116: create_dir_all / set_current_dir, both with `?`
RSetup ==
    /\ r_pc = "setup"
    /\ \E outcome \in {"ok", "create_dir_all", "set_current_dir"} :
          IF outcome = "ok"
          THEN r_pc' = "start" /\ UNCHANGED <<r_result, r_failedAt>>
          ELSE RAbort(outcome, "Err")
    /\ UNCHANGED <<r_archiveIdx, r_archive, archive_filename_opt,
                   temporary_files_to_remove, r_idx, r_fs, r_created, r_log,
                   r_others>>

\* lines 118-120: the next archive of configuration.archives, with what its
\* destination directory holds
RStartArchive ==
    /\ r_pc = "start"
    /\ r_archiveIdx < MaxArchives
    /\ \E a \in RestoreArchives :
          /\ a.kind # "Directory" => a.path = "/backups"
          /\ r_archive' = a
          /\ IF a.kind = "Directory"
             THEN \E held \in DestinationContents(a) :
                     r_fs' = [f \in DOMAIN r_fs \cup DOMAIN held |->
                                 IF f \in DOMAIN held THEN held[f] ELSE r_fs[f]]
             ELSE UNCHANGED r_fs
    /\ r_archiveIdx' = r_archiveIdx + 1
    /\ r_pc' = "locate"
    /\ archive_filename_opt' = <<>>
    /\ temporary_files_to_remove' = <<>>
    /\ r_created' = {}
    /\ UNCHANGED <<r_result, r_failedAt, r_idx, r_log, r_others>>

\* lines 121-130: the Locate step
RLocate ==
    /\ r_pc = "locate"
    /\ CASE r_archive.kind = "None" ->                       \* continue
              /\ r_pc' = "archive_end"
              /\ UNCHANGED <<r_result, r_failedAt, archive_filename_opt, r_fs,
                             r_created, r_log>>
         [] r_archive.kind = "Directory" ->
              LET found == get_newest_archive_name_in_directory(
                               build_possible_archive_names(r_archive.name),
                               r_archive, r_fs, <<>>)
              IN  /\ archive_filename_opt' = found
                  /\ r_log' = RLogged("locate", found # <<>>)
                  /\ r_pc' = "located"
                  /\ UNCHANGED <<r_result, r_failedAt, r_fs, r_created>>
         [] OTHER ->
              \E outcome \in FetchOutcomes(r_archive.kind), key \in DownloadKeys(r_archive) :
                  /\ r_fs' = IF outcome.file THEN WriteFile(r_fs, key) ELSE r_fs
                  /\ r_created' = IF outcome.file THEN r_created \cup {InWorkingDirectory(key)}
                                  ELSE r_created
                  /\ r_log' = IF outcome.as \in {"Err", "panic"}
                               THEN RLogged("fetch", FALSE)
                               ELSE RLogged("locate", outcome.as = "Ok(Some)")
                  /\ IF outcome.as \in {"Err", "panic"}
                     THEN RAbort(outcome.op, outcome.as) /\ UNCHANGED archive_filename_opt
                     ELSE /\ archive_filename_opt' =
                                download_to_tmp_result(r_archive, outcome, key)
                          /\ r_pc' = "located"
                          /\ UNCHANGED <<r_result, r_failedAt>>
    /\ UNCHANGED <<r_archiveIdx, r_archive, temporary_files_to_remove, r_idx,
                   r_others>>

\* lines 133-139
full_path == RestoreFullPath(r_archive, archive_filename_opt[1])

encrypted_filename == full_path \o ".enc"

\* compression.rs 53: the tar file decompress_tar_file reads
tar_filename ==
    IF r_archive.compression = "TarBZ2" THEN StripSuffix(full_path, ".bz2")
    ELSE full_path

\* lines 132, 154-162: nothing located, nothing to remove
RNoCandidate ==
    /\ r_pc = "located"
    /\ archive_filename_opt = <<>>
    /\ r_pc' = "archive_end"
    /\ UNCHANGED <<r_result, r_failedAt, r_archiveIdx, r_archive,
                   archive_filename_opt, temporary_files_to_remove, r_idx,
                   r_fs, r_created, r_log, r_others>>

\* encryption.rs 22-59: how decrypt_file can end; a command that ran may
\* have written (part of) its output file
DecryptOutcomes(input_exists) ==
    {[op |-> "decrypt_spawn", ok |-> FALSE, output |-> FALSE],
     [op |-> "decrypt_wait", ok |-> FALSE, output |-> FALSE],
     [op |-> "decrypt_exit_code", ok |-> FALSE, output |-> FALSE]}
    \cup (IF input_exists
          THEN {[op |-> "decrypt_exit_code", ok |-> FALSE, output |-> TRUE],
                [op |-> "decrypt", ok |-> TRUE, output |-> TRUE]}
          ELSE {})

\* lines 138-144
RDecrypt ==
    /\ r_pc = "located"
    /\ archive_filename_opt # <<>>
    /\ r_archive.encryption
    /\ \E outcome \in DecryptOutcomes(Exists(r_fs, encrypted_filename)) :
          LET output_filename == StripSuffix(encrypted_filename, ".enc")
          IN  /\ r_fs' = IF outcome.output THEN WriteFile(r_fs, output_filename) ELSE r_fs
              /\ r_created' = IF outcome.output
                              THEN r_created \cup {InWorkingDirectory(output_filename)}
                              ELSE r_created
              /\ r_log' = RLogged("decrypt", outcome.ok)
              /\ IF outcome.ok
                 THEN /\ temporary_files_to_remove' =
                            Append(temporary_files_to_remove, full_path)
                      /\ r_pc' = "decompress"
                      /\ UNCHANGED <<r_result, r_failedAt>>
                 ELSE /\ RAbort(outcome.op, "Err")
                      /\ UNCHANGED temporary_files_to_remove
    /\ UNCHANGED <<r_archiveIdx, r_archive, archive_filename_opt, r_idx, r_others>>

\* line 138: no encryption configured
RNoDecrypt ==
    /\ r_pc = "located"
    /\ archive_filename_opt # <<>>
    /\ ~r_archive.encryption
    /\ r_pc' = "decompress"
    /\ UNCHANGED <<r_result, r_failedAt, r_archiveIdx, r_archive,
                   archive_filename_opt, temporary_files_to_remove, r_idx,
                   r_fs, r_created, r_log, r_others>>

\* compression.rs 38-79: how the bzip2 inflation can end
InflateOutcomes(input_exists) ==
    {[op |-> "bz2_open", ok |-> FALSE, output |-> FALSE]}
    \cup (IF input_exists
          THEN {[op |-> "bz2_create", ok |-> FALSE, output |-> FALSE],
                [op |-> "bz2_read", ok |-> FALSE, output |-> TRUE],
                [op |-> "bz2_write", ok |-> FALSE, output |-> TRUE],
                [op |-> "inflate", ok |-> TRUE, output |-> TRUE]}
          ELSE {})

\* lines 145-151 and compression.rs 25-82: decompress_file up to the tar file
RDecompress ==
    /\ r_pc = "decompress"
    /\ CASE r_archive.compression = "None" ->
              /\ r_pc' = "cleanup"
              /\ r_idx' = 1
              /\ UNCHANGED <<r_result, r_failedAt, r_fs, r_created, r_log>>
         [] r_archive.compression = "Tar" ->
              /\ r_pc' = "extract"
              /\ UNCHANGED <<r_result, r_failedAt, r_idx, r_fs, r_created, r_log>>
         [] OTHER ->
              \E outcome \in InflateOutcomes(Exists(r_fs, full_path)) :
                  /\ r_fs' = IF outcome.output THEN WriteFile(r_fs, tar_filename) ELSE r_fs
                  /\ r_created' = IF outcome.output
                                  THEN r_created \cup {InWorkingDirectory(tar_filename)}
                                  ELSE r_created
                  /\ r_log' = RLogged("inflate", outcome.ok)
                  /\ IF outcome.ok
                     THEN r_pc' = "extract" /\ UNCHANGED <<r_result, r_failedAt>>
                     ELSE RAbort(outcome.op, "Err")
                  /\ UNCHANGED r_idx
    /\ UNCHANGED <<r_archiveIdx, r_archive, archive_filename_opt,
                   temporary_files_to_remove, r_others>>

\* the dump files the databases of an archive are unpacked to
RestoreDumpFilenames(a) ==
    {build_dump_filename(a.databases[k]) : k \in 1..Len(a.databases)}

\* compression.rs 84-210: decompress_tar_file.  The entries are unpacked
\* (a dump file whose database restore failed is left behind), then the tar
\* file is removed; a failed removal is only logged.
RExtract ==
    /\ r_pc = "extract"
    /\ \/ /\ \E stage \in {"tar_open"} \cup
                  (IF Exists(r_fs, tar_filename) THEN {"tar_entries"} ELSE {}) :
                RAbort(stage, "Err")
          /\ r_log' = RLogged("extract", FALSE)
          /\ UNCHANGED <<r_fs, r_idx>>
       \/ /\ Exists(r_fs, tar_filename)
          /\ \E left \in SUBSET RestoreDumpFilenames(r_archive), removed \in BOOLEAN :
                LET unpacked == [f \in DOMAIN r_fs \cup {InWorkingDirectory(d) : d \in left} |->
                                    IF f \in DOMAIN r_fs THEN r_fs[f] ELSE <<1>>]
                IN  /\ r_fs' = IF removed THEN RemoveFile(unpacked, tar_filename)
                               ELSE unpacked
                    /\ r_log' = Append(RLogged("extract", TRUE),
                                       [archive |-> r_archiveIdx, op |-> "remove_tar",
                                        ok |-> removed])
          /\ r_pc' = "cleanup"
          /\ r_idx' = 1
          /\ UNCHANGED <<r_result, r_failedAt>>
    /\ UNCHANGED <<r_archiveIdx, r_archive, archive_filename_opt,
                   temporary_files_to_remove, r_created, r_others>>

\* lines 154-161: fs::remove_file of one temporary file, a failure is a warning
RRemoveTemporary ==
    /\ r_pc = "cleanup"
    /\ r_idx <= Len(temporary_files_to_remove)
    /\ LET temporary_file == temporary_files_to_remove[r_idx]
       IN  \E ok \in {FALSE} \cup (IF Exists(r_fs, temporary_file) THEN {TRUE} ELSE {}) :
              /\ r_fs' = IF ok THEN RemoveFile(r_fs, temporary_file) ELSE r_fs
              /\ r_log' = RLogged(IF Exists(r_fs, temporary_file)
                                   THEN "remove_temporary" ELSE "remove_missing", ok)
    /\ r_idx' = r_idx + 1
    /\ UNCHANGED <<r_pc, r_result, r_failedAt, r_archiveIdx, r_archive,
                   archive_filename_opt, temporary_files_to_remove, r_created,
                   r_others>>

\* line 162: the end of the loop body
RCleanupDone ==
    /\ r_pc = "cleanup"
    /\ r_idx > Len(temporary_files_to_remove)
    /\ r_pc' = "archive_end"
    /\ UNCHANGED <<r_result, r_failedAt, r_archiveIdx, r_archive,
                   archive_filename_opt, temporary_files_to_remove, r_idx,
                   r_fs, r_created, r_log, r_others>>

\* line 118: the locals of the iteration are dropped
REndArchive ==
    /\ r_pc = "archive_end"
    /\ r_pc' = "start"
    /\ r_archive' = NoArchive
    /\ archive_filename_opt' = <<>>
    /\ temporary_files_to_remove' = <<>>
    /\ r_idx' = 0
    /\ r_created' = {}
    /\ UNCHANGED <<r_result, r_failedAt, r_archiveIdx, r_fs, r_log, r_others>>

\* line 164
RFinish ==
    /\ r_pc = "start"
    /\ r_pc' = "done"
    /\ r_result' = "Ok"
    /\ UNCHANGED <<r_failedAt, r_archiveIdx, r_archive, archive_filename_opt,
                   temporary_files_to_remove, r_idx, r_fs, r_created, r_log,
                   r_others>>

NextRestore ==
    \/ RSetup
    \/ RStartArchive
    \/ RLocate
    \/ RNoCandidate
    \/ RDecrypt
    \/ RNoDecrypt
    \/ RDecompress
    \/ RExtract
    \/ RRemoveTemporary
    \/ RCleanupDone
    \/ REndArchive
    \/ RFinish

SpecRestore == InitRestore /\ [][NextRestore]_vars

----------------------------------------------------------------------------
(* Properties of Restore::start                                            *)

FetchStages ==
    {o.op : o \in FetchOutcomes("S3") \cup FetchOutcomes("SSH")} \ {"none"}

DecryptStages == {o.op : o \in {x \in DecryptOutcomes(TRUE) : ~x.ok}}

DecompressStages ==
    {o.op : o \in {x \in InflateOutcomes(TRUE) : ~x.ok}} \cup {"tar_open", "tar_entries"}

\* C12: a fetch, decrypt or decompress failure ends the run with
\* Restore::start returning an error; no later archive is processed.
C12_FailureReturnsErr ==
    r_failedAt \in FetchStages \cup DecryptStages \cup DecompressStages =>
        /\ r_result = "Err"
        /\ r_pc = "done"
        /\ \A k \in 1..Len(r_log) : r_log[k].archive <= r_archiveIdx

\* the Locate step of archive i found nothing
NoCandidate(i) ==
    \E k \in 1..Len(r_log) :
        r_log[k] = [archive |-> i, op |-> "locate", ok |-> FALSE]

\* C13: when Locate finds no candidate for an archive, nothing is decrypted,
\* extracted or removed for it, no error is raised, and the run goes on to
\* the end of the iteration (the next archive, or Ok).
C13_NoCandidateIsSkipped ==
    \A i \in 1..r_archiveIdx :
        NoCandidate(i) =>
            /\ \A k \in 1..Len(r_log) : r_log[k].archive = i => r_log[k].op = "locate"
            /\ r_archiveIdx = i =>
                  /\ r_result \in {"running", "Ok"}
                  /\ r_failedAt = "none"
                  /\ r_pc \in {"located", "archive_end", "start", "done"}
                  /\ temporary_files_to_remove = <<>>

\* an archive without candidate was followed by one that was extracted
C13_Witness ==
    \E i \in 1..r_archiveIdx :
        /\ NoCandidate(i)
        /\ \E k \in 1..Len(r_log) :
              r_log[k] = [archive |-> i + 1, op |-> "extract", ok |-> TRUE]

\* no removal of an existing file failed during the current archive
NoRemovalFailed ==
    \A k \in 1..Len(r_log) :
        (r_log[k].archive = r_archiveIdx
            /\ r_log[k].op \in {"remove_tar", "remove_temporary"}) => r_log[k].ok

\* C14: after a successful restore of an archive none of the files it wrote
\* into the working directory (downloaded archive, decrypted file,
\* decompressed tar) remains.
C14_NoTemporaryFileRemains ==
    (r_pc = "archive_end" /\ archive_filename_opt # <<>> /\ NoRemovalFailed) =>
        \A f \in r_created : f \notin DOMAIN r_fs

----------------------------------------------------------------------------
(* Compression::decompress_tar_file, src/configuration/compression.rs      *)
(* 84-210: the closure run for every entry of the tar file                 *)

\* Kind::to_extension_string
to_extension_string(kind) == IF kind = "MongoDB" THEN ".bson" ELSE ".sql"

\* line 159
expected_string(db) == db.name \o to_extension_string(db.kind)

\* a path without the slashes at its end (Path ignores them)
RECURSIVE TrimSlashes(_)
TrimSlashes(d) ==
    IF Len(d) > 1 /\ EndsWith(d, "/") THEN TrimSlashes(SubSeq(d, 1, Len(d) - 1)) ELSE d

\* Path::file_name: the last component, None for the root, "" and ".."
file_name(d) ==
    LET leaf == ArchiveDirectoryString(TrimSlashes(d))
    IN  IF leaf \in {"", ".."} THEN <<>> ELSE <<leaf>>

\* Path::parent: the path without its last component, None for the root
\* and ""
parent(d) ==
    LET t == TrimSlashes(d)
        leaf == ArchiveDirectoryString(t)
        cut == Len(t) - Len(leaf)
    IN  IF t \in {"", "/"} THEN <<>>
        ELSE IF cut = 0 THEN <<"">>
        ELSE IF cut = 1 THEN <<"/">>
        ELSE <<SubSeq(t, 1, cut - 1)>>

\* lines 117-127: the directory's leaf name followed by "/" starts the path
DirectoryMatches(d, path) ==
    file_name(d) # <<>> /\ StartsWith(path, file_name(d)[1] \o "/")

\* lines 116-155: the directories whose name matches the path of an entry
DirectoriesMatching(dirs, path) ==
    {k \in 1..Len(dirs) : DirectoryMatches(dirs[k], path)}

Least(S) == CHOOSE k \in S : \A j \in S : k <= j

\* lines 129-134: where an entry matching directory d is unpacked
dst(d, path) == parent(d)[1] \o "/" \o path

ExtractEntryPaths == {"shop.sql", "www/index.html"}

ExtractTarFilename == "archive.tar"

ExtractDirectories == {"/var/www"}

\* the lists of databases: none, one, one after a database with another dump
\* file, and two with the same dump file
ExtractDatabases ==
    {<<>>,
     <<[name |-> "shop", kind |-> "MySql"]>>,
     <<[name |-> "blog", kind |-> "MySql"], [name |-> "shop", kind |-> "MySql"]>>,
     <<[name |-> "shop", kind |-> "MySql"], [name |-> "shop", kind |-> "PostgreSql"]>>}

InitExtract ==
    /\ RoundTripIdle
    /\ StreamIdle
    /\ TransferIdle
    /\ ProgressIdle
    /\ BackupIdle
    /\ NamesIdle
    /\ LocateIdle
    /\ FetchIdle
    /\ RestoreIdle
    /\ x_pc = "open"
    /\ x_result = "running"
    /\ x_entries \in SeqsUpTo(ExtractEntryPaths, MaxEntries)
    /\ output_dirs \in SeqsUpTo(ExtractDirectories, MaxDirectories)
    /\ dbs \in ExtractDatabases
    /\ x_entry = 0
    /\ x_db = 0
    /\ x_files = {ExtractTarFilename}
    /\ x_calls = <<>>

x_others == <<bvars, nvars, lvars, fvars, rvars, pvars, tvars, svars, dvars>>

XCalled(op, ok, to) ==
    Append(x_calls, [entry |-> x_entry, db |-> x_db, op |-> op, ok |-> ok, to |-> to])

\* lines 94-103: File::open and tar.entries(), each `return Err`
XOpenTar ==
    /\ x_pc = "open"
    /\ \E outcome \in {"ok", "open", "entries"} :
          IF outcome = "ok"
          THEN x_pc' = "entry" /\ UNCHANGED x_result
          ELSE x_pc' = "done" /\ x_result' = "Err"
    /\ UNCHANGED <<x_entries, output_dirs, dbs, x_entry, x_db, x_files, x_calls,
                   x_others>>

\* lines 105-114: the closure starts for the next entry; an unreadable
\* entry or path makes it return at once
XStartEntry ==
    /\ x_pc = "entry"
    /\ x_entry < Len(x_entries)
    /\ x_entry' = x_entry + 1
    /\ x_db' = 0
    /\ \E readable \in BOOLEAN :
          x_pc' = IF readable THEN "dirs" ELSE "entry"
    /\ UNCHANGED <<x_result, x_entries, output_dirs, dbs, x_files, x_calls,
                   x_others>>

entry_str == x_entries[x_entry]

\* line 125
MatchingDirectories == DirectoriesMatching(output_dirs, entry_str)

\* lines 115-157: the entry is unpacked below the first directory whose
\* name is its first component; a failed unpack is only logged
XDirectories ==
    /\ x_pc = "dirs"
    /\ IF MatchingDirectories # {}
       THEN /\ \E ok \in BOOLEAN :
                  x_calls' = XCalled("unpack_directory", ok,
                                     dst(output_dirs[Least(MatchingDirectories)], entry_str))
            /\ x_pc' = "entry"
            /\ UNCHANGED x_db
       ELSE /\ x_pc' = "dbs"
            /\ x_db' = 1
            /\ UNCHANGED x_calls
    /\ UNCHANGED <<x_result, x_entries, output_dirs, dbs, x_entry, x_files,
                   x_others>>

\* lines 158-163: the next database; one whose dump file name differs from
\* the entry's path is passed over
XNextDb ==
    /\ x_pc = "dbs"
    /\ x_db <= Len(dbs)
    /\ IF expected_string(dbs[x_db]) # entry_str
       THEN x_db' = x_db + 1 /\ UNCHANGED x_pc
       ELSE x_pc' = "unpack" /\ UNCHANGED x_db
    /\ UNCHANGED <<x_result, x_entries, output_dirs, dbs, x_entry, x_files,
                   x_calls, x_others>>

\* line 197: `for db in dbs` is over, and with it the closure
XDbsDone ==
    /\ x_pc = "dbs"
    /\ x_db > Len(dbs)
    /\ x_pc' = "entry"
    /\ UNCHANGED <<x_result, x_entries, output_dirs, dbs, x_entry, x_db, x_files,
                   x_calls, x_others>>

\* lines 165-195: the sub-steps of a database restore, in program order
DbSteps ==
    <<"unpack", "delete_database", "create_database", "open_dump",
      "import_database", "remove_file">>

StepIndex(step) == CHOOSE k \in 1..Len(DbSteps) : DbSteps[k] = step

\* variant: a failed sub-step does not `continue`
StepAfter_IgnoreFailure(step, ok) ==
    IF step = "remove_file" THEN "dbs" ELSE DbSteps[StepIndex(step) + 1]

\* where the closure goes after a sub-step: `continue` (the next db) on a
\* failure and after remove_file, the following sub-step otherwise
StepAfter(step, ok) ==
    IF step = "remove_file" \/ ~ok THEN "dbs" ELSE DbSteps[StepIndex(step) + 1]

\* the file effect of a sub-step
FilesAfter(step, ok) ==
    CASE step = "unpack" /\ ok -> x_files \cup {expected_string(dbs[x_db])}
      [] step = "remove_file" /\ ok -> x_files \ {expected_string(dbs[x_db])}
      [] OTHER -> x_files

XDbStep(step, outcomes) ==
    /\ x_pc = step
    /\ \E outcome \in outcomes :
          LET ok == outcome = "ok"
              next == StepAfter(step, ok)
          IN  /\ x_calls' = XCalled(step, ok, expected_string(dbs[x_db]))
              /\ x_files' = FilesAfter(step, ok)
              /\ x_pc' = next
              /\ x_db' = IF next = "dbs" THEN x_db + 1 ELSE x_db
    /\ UNCHANGED <<x_result, x_entries, output_dirs, dbs, x_entry, x_others>>

\* database.rs 156-194: spawn, wait_with_output, status.success()
CommandOutcomes == {"ok", "spawn", "wait", "exit_code"}

\* line 165
XUnpack == XDbStep("unpack", {"ok", "io"})

\* line 170
XDeleteDatabase == XDbStep("delete_database", CommandOutcomes)

\* line 174
XCreateDatabase == XDbStep("create_database", CommandOutcomes)

\* line 179
XOpenDump ==
    XDbStep("open_dump",
            {"io"} \cup (IF expected_string(dbs[x_db]) \in x_files THEN {"ok"} ELSE {}))

\* line 186, database.rs 196-231
XImportDatabase == XDbStep("import_database", CommandOutcomes \cup {"read", "write"})

\* line 190: a failure is only logged
XRemoveDump == XDbStep("remove_file", {"ok", "io"})

\* lines 200-209: the tar file is removed (a failure is only logged)
XReturn ==
    /\ x_pc = "entry"
    /\ x_entry = Len(x_entries)
    /\ \E removed \in BOOLEAN :
          x_files' = IF removed THEN x_files \ {ExtractTarFilename} ELSE x_files
    /\ x_pc' = "done"
    /\ x_result' = "Ok"
    /\ UNCHANGED <<x_entries, output_dirs, dbs, x_entry, x_db, x_calls, x_others>>

NextExtract ==
    \/ XOpenTar
    \/ XStartEntry
    \/ XDirectories
    \/ XNextDb
    \/ XDbsDone
    \/ XUnpack
    \/ XDeleteDatabase
    \/ XCreateDatabase
    \/ XOpenDump
    \/ XImportDatabase
    \/ XRemoveDump
    \/ XReturn

SpecExtract == InitExtract /\ [][NextExtract]_vars

\* the calls made for database d while the closure ran for entry e
CallsFor(e, d) ==
    SelectSeq(x_calls, LAMBDA c : c.entry = e /\ c.db = d)

\* C15: for a matching entry the sub-steps of a database restore are called
\* in the order unpack, delete_database, create_database, (open,)
\* import_database, remove_file, each only after all earlier ones succeeded;
\* a failed sub-step ends only that database's restore: the run does not
\* fail and goes on to every later entry.
C15_DatabaseStepsInOrder ==
    /\ \A e \in 1..x_entry : \A d \in 1..Len(dbs) :
          LET calls == CallsFor(e, d)
          IN  /\ Len(calls) <= Len(DbSteps)
              /\ \A k \in 1..Len(calls) :
                    /\ calls[k].op = DbSteps[k]
                    /\ k > 1 => calls[k - 1].ok
    /\ (x_calls # <<>> /\ x_pc = "dbs") =>
          LET last == x_calls[Len(x_calls)]
          IN  (last.op = "remove_file" /\ last.ok) =>
                  expected_string(dbs[last.db]) \notin x_files
    /\ x_pc = "done" =>
          \/ x_result = "Err" /\ x_entry = 0 /\ x_calls = <<>>
          \/ x_result = "Ok" /\ x_entry = Len(x_entries)

\* an import failed, its dump file stays, and the following directory entry
\* was unpacked
C15_Witness ==
    /\ x_pc = "done"
    /\ x_result = "Ok"
    /\ \E k \in 1..Len(x_calls) :
          /\ x_calls[k].op = "import_database" /\ ~x_calls[k].ok
          /\ expected_string(dbs[x_calls[k].db]) \in x_files
          /\ \E j \in (k + 1)..Len(x_calls) :
                /\ x_calls[j].entry > x_calls[k].entry
                /\ x_calls[j].op = "unpack_directory"

----------------------------------------------------------------------------
(* ProgressStats, src/helper/mod.rs                                        *)
(*                                                                         *)
(* An Instant is a number of ticks of half a second, so that               *)
(* Duration::as_secs truncates.  A usize is too wide to count to its end:  *)
(* the byte counts stay below MaxBytes, and the one subtraction that can   *)
(* wrap (set_progressed_size) keeps its mathematical result d < 0 in the   *)
(* sample, which stands for the wrapped value 2^64 + d.                    *)

TicksPerSecond == 2

\* Duration::from_secs
from_secs(seconds) == seconds * TicksPerSecond

\* Duration::as_secs
as_secs(duration) == duration \div TicksPerSecond

\* lines 30, 49: the age beyond which a sample is evicted, in seconds
EvictionSeconds == 10

RECURSIVE SumSizes(_)
SumSizes(series) ==
    IF series = <<>> THEN 0 ELSE Head(series).size + SumSizes(Tail(series))

\* lines 27-40, 47-61: pop_front while the front is older than 10 seconds
RECURSIVE Evict(_, _)
Evict(series, now) ==
    IF series # <<>> /\ now - Head(series).t > from_secs(EvictionSeconds)
    THEN Evict(Tail(series), now)
    ELSE series

\* variant: the window test never skips a sample
OutsideWindow_Never(now, t, seconds) == FALSE

\* line 117
OutsideWindow(now, t, seconds) == now - t > from_secs(seconds)

\* lines 112-142; `bytes` is bytes_progressed before the division
get_average_speed_for_last_x_seconds(series, now, seconds) ==
    LET counted == SelectSeq(series, LAMBDA s : ~OutsideWindow(now, s.t, seconds))
        bytes_progressed == SumSizes(counted)
        last_seconds ==
            IF counted = <<>> THEN seconds
            ELSE LET secs == as_secs(now - counted[1].t)
                 IN  IF secs = 0 THEN 1 ELSE secs
    IN  [seconds |-> seconds, bytes |-> bytes_progressed,
         speed |-> bytes_progressed \div last_seconds]

\* lines 14-22
InitProgress ==
    /\ RoundTripIdle
    /\ StreamIdle
    /\ TransferIdle
    /\ BackupIdle
    /\ NamesIdle
    /\ LocateIdle
    /\ FetchIdle
    /\ RestoreIdle
    /\ ExtractIdle
    /\ progressed_size = 0
    /\ time_series = <<>>
    /\ p_now = 0
    /\ p_history = <<>>
    /\ p_op = "new"
    /\ p_read = <<>>

p_others == <<bvars, nvars, lvars, fvars, rvars, xvars, tvars, svars, dvars>>

\* time passes between two calls
PElapse ==
    /\ p_op # "panic"
    /\ \E ticks \in {2, 21} :
          /\ p_now + ticks <= MaxClock
          /\ p_now' = p_now + ticks
    /\ p_op' = "elapse"
    /\ p_read' = <<>>
    /\ UNCHANGED <<progressed_size, time_series, p_history, p_others>>

\* lines 24-41
add_progressed_size ==
    /\ p_op # "panic"
    /\ Len(p_history) < MaxRecords
    /\ \E size \in {1, 2} :
          /\ progressed_size + size <= MaxBytes
          /\ progressed_size' = progressed_size + size
          /\ time_series' = Evict(Append(time_series, [t |-> p_now, size |-> size]), p_now)
          /\ p_history' = Append(p_history, [t |-> p_now, size |-> size])
    /\ p_op' = "add"
    /\ p_read' = <<>>
    /\ UNCHANGED <<p_now, p_others>>

\* lines 43-62.  `size - self.progressed_size` below zero panics in a build
\* with overflow checks and wraps in one without.
set_progressed_size ==
    /\ p_op # "panic"
    /\ Len(p_history) < MaxRecords
    /\ \E size \in {1, 3} :
          LET added_size == size - progressed_size
          IN  \/ /\ progressed_size' = size
                 /\ time_series' =
                       Evict(Append(time_series, [t |-> p_now, size |-> added_size]), p_now)
                 /\ p_history' = Append(p_history, [t |-> p_now, size |-> added_size])
                 /\ p_op' = "set"
              \/ /\ added_size < 0
                 /\ p_op' = "panic"
                 /\ UNCHANGED <<progressed_size, time_series, p_history>>
    /\ p_read' = <<>>
    /\ UNCHANGED <<p_now, p_others>>

\* lines 102-109: get_average_speed_for_last_second / _for_last_10_seconds
get_average_speed ==
    /\ p_op # "panic"
    /\ \E seconds \in {1, 10} :
          p_read' = get_average_speed_for_last_x_seconds(time_series, p_now, seconds)
    /\ p_op' = "read"
    /\ UNCHANGED <<progressed_size, time_series, p_now, p_history, p_others>>

NextProgress ==
    \/ PElapse
    \/ add_progressed_size
    \/ set_progressed_size
    \/ get_average_speed

SpecProgress == InitProgress /\ [][NextProgress]_vars

----------------------------------------------------------------------------
(* Properties of ProgressStats                                             *)

\* every sample was pushed by add_progressed_size or by a
\* set_progressed_size that did not wrap
NoWrappedSample == \A k \in 1..Len(p_history) : p_history[k].size >= 0

\* C16: progressed_size never decreases across add_progressed_size and
\* set_progressed_size calls, and equals the sum of the recorded deltas.
C16_ProgressedSizeMonotonic ==
    [][/\ progressed_size' >= progressed_size
       /\ NoWrappedSample' => progressed_size' = SumSizes(p_history')]_vars

Age(sample) == p_now - sample.t

\* C17: whenever the samples are read, none of them is older than 10
\* seconds, however long ago the last one was recorded.
C17_NoStaleSampleAtRead ==
    p_op = "read" =>
        \A k \in 1..Len(time_series) : Age(time_series[k]) <= from_secs(EvictionSeconds)

\* right after a sample is pushed none is older than 10 seconds
EvictedAfterRecord ==
    p_op \in {"add", "set"} =>
        \A k \in 1..Len(time_series) : Age(time_series[k]) <= from_secs(EvictionSeconds)

\* the samples ever recorded that are at most `seconds` old
RecordedWithin(seconds) ==
    SelectSeq(p_history, LAMBDA s : Age(s) <= from_secs(seconds))

\* C18: a speed computation counts exactly the bytes of the samples whose
\* age is within its window, and progressed_size is the total of all samples
\* ever recorded, evicted ones included.
C18_WindowedSpeedAndTotal ==
    (p_op = "read" /\ NoWrappedSample) =>
        /\ p_read.bytes = SumSizes(RecordedWithin(p_read.seconds))
        /\ progressed_size = SumSizes(p_history)

\* the samples span more than 10 seconds, one was evicted, one held sample
\* is outside the window read and one is inside
C18_Witness ==
    /\ p_op = "read"
    /\ NoWrappedSample
    /\ Len(p_history) >= 2
    /\ p_history[Len(p_history)].t - p_history[1].t > from_secs(EvictionSeconds)
    /\ Len(time_series) < Len(p_history)
    /\ \E k \in 1..Len(time_series) : Age(time_series[k]) > from_secs(p_read.seconds)
    /\ p_read.bytes > 0
    /\ p_read.bytes < progressed_size

----------------------------------------------------------------------------
(* The byte-copy loop of download_from_s3_to_tmp and the reporting thread  *)
(* it spawns, src/configuration/destination.rs 172-264                     *)
(*                                                                         *)
(* The state starts right after thread::spawn.  A MutexGuard is dropped at *)
(* the end of the match arm that binds it, so every critical section is    *)
(* one state between its lock() and the step that ends the arm.  No call   *)
(* inside a critical section panics here, so the mutex is never poisoned.  *)

InitTransfer ==
    /\ RoundTripIdle
    /\ StreamIdle
    /\ BackupIdle
    /\ NamesIdle
    /\ LocateIdle
    /\ FetchIdle
    /\ RestoreIdle
    /\ ExtractIdle
    /\ ProgressIdle
    /\ t_pc = "read_buf"
    /\ t_return = "running"
    /\ rep_pc = "lock"
    /\ lock = "free"
    /\ finished = FALSE
    /\ t_progressed_size = 0
    /\ read_bytes = 0
    /\ t_reads = 0
    /\ rep_seen = 0

t_others == <<bvars, nvars, lvars, fvars, rvars, xvars, pvars, svars, dvars>>

\* variant: lock() succeeds whoever holds the mutex
CanLock_Always == TRUE

\* Mutex::lock returns once nobody holds the mutex
CanLock == lock = "free"

\* line 243: body.read_buf(..).await with `?`
TReadBuf ==
    /\ t_pc = "read_buf"
    /\ \/ /\ t_pc' = "returned"                     \* Err: `?` returns
          /\ t_return' = "Err"
          /\ UNCHANGED <<read_bytes, t_reads>>
       \/ /\ t_reads < MaxReads
          /\ \E n \in {1, 2} : read_bytes' = n
          /\ t_reads' = t_reads + 1
          /\ t_pc' = "write_all"
          /\ UNCHANGED t_return
       \/ /\ read_bytes' = 0                        \* the end of the body
          /\ t_reads' = t_reads
          /\ t_pc' = "lock_finished"                \* line 254: done = true
          /\ UNCHANGED t_return
    /\ UNCHANGED <<rep_pc, lock, finished, t_progressed_size, rep_seen, t_others>>

\* lines 245-246: f.write_all with `?`
TWriteAll ==
    /\ t_pc = "write_all"
    /\ \/ t_pc' = "lock_add" /\ UNCHANGED t_return
       \/ t_pc' = "returned" /\ t_return' = "Err"
    /\ UNCHANGED <<rep_pc, lock, finished, t_progressed_size, read_bytes, t_reads,
                   rep_seen, t_others>>

\* line 247
TLockAdd ==
    /\ t_pc = "lock_add"
    /\ CanLock
    /\ lock' = "transfer"
    /\ t_pc' = "add_progressed_size"
    /\ UNCHANGED <<t_return, rep_pc, finished, t_progressed_size, read_bytes,
                   t_reads, rep_seen, t_others>>

\* lines 248-250: add_progressed_size(read_bytes), then the guard is dropped
TAddProgressedSize ==
    /\ t_pc = "add_progressed_size"
    /\ t_progressed_size' = t_progressed_size + read_bytes
    /\ lock' = "free"
    /\ t_pc' = "read_buf"
    /\ UNCHANGED <<t_return, rep_pc, finished, read_bytes, t_reads, rep_seen,
                   t_others>>

\* line 255
TLockFinished ==
    /\ t_pc = "lock_finished"
    /\ CanLock
    /\ lock' = "transfer"
    /\ t_pc' = "set_finished"
    /\ UNCHANGED <<t_return, rep_pc, finished, t_progressed_size, read_bytes,
                   t_reads, rep_seen, t_others>>

\* lines 256-258: set_finished(), then the guard is dropped
TSetFinished ==
    /\ t_pc = "set_finished"
    /\ finished' = TRUE
    /\ lock' = "free"
    /\ t_pc' = "join"
    /\ UNCHANGED <<t_return, rep_pc, t_progressed_size, read_bytes, t_reads,
                   rep_seen, t_others>>

\* lines 264-279: thread.join() returns when the reporting thread has ended
TJoin ==
    /\ t_pc = "join"
    /\ rep_pc = "exited"
    /\ t_pc' = "returned"
    /\ t_return' = "Ok(Some)"
    /\ UNCHANGED <<rep_pc, lock, finished, t_progressed_size, read_bytes, t_reads,
                   rep_seen, t_others>>

\* line 176
RepLock ==
    /\ rep_pc = "lock"
    /\ CanLock
    /\ lock' = "reporter"
    /\ rep_pc' = "report"
    /\ UNCHANGED <<t_pc, t_return, finished, t_progressed_size, read_bytes,
                   t_reads, rep_seen, t_others>>

\* lines 177-232: the line is built from the ProgressStats and printed; the
\* loop is left if is_finished(); either way the arm ends and the guard drops
RepReport ==
    /\ rep_pc = "report"
    /\ rep_seen' = t_progressed_size
    /\ rep_pc' = IF finished THEN "exited" ELSE "sleep"
    /\ lock' = "free"
    /\ UNCHANGED <<t_pc, t_return, finished, t_progressed_size, read_bytes,
                   t_reads, t_others>>

\* line 236: thread::sleep(250 ms)
RepSleep ==
    /\ rep_pc = "sleep"
    /\ rep_pc' = "lock"
    /\ UNCHANGED <<t_pc, t_return, lock, finished, t_progressed_size, read_bytes,
                   t_reads, rep_seen, t_others>>

Transfer ==
    \/ TReadBuf
    \/ TWriteAll
    \/ TLockAdd
    \/ TAddProgressedSize
    \/ TLockFinished
    \/ TSetFinished
    \/ TJoin

Reporter ==
    \/ RepLock
    \/ RepReport
    \/ RepSleep

NextTransfer ==
    \/ TReadBuf
    \/ TWriteAll
    \/ TLockAdd
    \/ TAddProgressedSize
    \/ TLockFinished
    \/ TSetFinished
    \/ TJoin
    \/ RepLock
    \/ RepReport
    \/ RepSleep

SpecTransfer == InitTransfer /\ [][NextTransfer]_vars

\* The reporting loop is an operating-system thread and the copy loop a task
\* of the runtime: each keeps being scheduled, a read or write that is
\* awaited returns, and a thread waiting in lock() gets the mutex when it is
\* free again and again.
SpecTransferFair ==
    /\ SpecTransfer
    /\ WF_vars(Transfer)
    /\ WF_vars(Reporter)
    /\ SF_vars(RepLock)
    /\ SF_vars(TLockAdd)
    /\ SF_vars(TLockFinished)

\* C19: the reporting loop of every fetch eventually terminates (the
\* transfer sets the finished flag on every path that ends the copy loop).
C19_ReportingLoopTerminates == <>(rep_pc = "exited")

\* the flag is set on every path that ends the copy loop
FinishedWhenCopyLoopEnds == t_pc = "returned" => finished

\* the flag, once set, is never cleared
FinishedNeverCleared == [][finished => finished']_vars

\* once the flag is set the reporting loop ends
FinishedLeadsToExit == finished ~> (rep_pc = "exited")

TransferInCriticalSection == t_pc \in {"add_progressed_size", "set_finished"}

ReporterInCriticalSection == rep_pc = "report"

\* C20: the ProgressStats is read and written only by the holder of the
\* mutex, the reporter and the transfer are never in their critical sections
\* together, and the reporter does not hold the mutex while it sleeps.
C20_MutualExclusion ==
    /\ TransferInCriticalSection => lock = "transfer"
    /\ ReporterInCriticalSection => lock = "reporter"
    /\ ~(TransferInCriticalSection /\ ReporterInCriticalSection)
    /\ rep_pc \in {"sleep", "lock", "exited"} => lock # "reporter"
    /\ t_pc \notin {"add_progressed_size", "set_finished"} => lock # "transfer"

\* the transfer waits in lock() while the reporter is in its critical section
C20_Witness ==
    /\ ReporterInCriticalSection
    /\ t_pc \in {"lock_add", "lock_finished"}
    /\ lock = "reporter"
    /\ t_progressed_size > 0

----------------------------------------------------------------------------
(* Sending one file over scp, src/backup/mod.rs 199-219                    *)
(*                                                                         *)
(* The bytes of a file are numbered 1, 2, ... so that each is told from    *)
(* every other and from the zeroes the buffer starts with.  The buffer of  *)
(* 32 KiB is ChunkSize bytes here.                                         *)

ChunkSize == 2

FilesOfLength == {[i \in 1..n |-> i] : n \in 0..MaxFileLen}

\* the buffer after a read of `n` bytes at `offset`: the first n bytes are
\* the file's, the rest is what the buffer held before
ReadInto(buffer, file, offset, n) ==
    [i \in 1..Len(buffer) |-> IF i <= n THEN file[offset + i] ELSE buffer[i]]

\* Read::read may return any number of bytes from 1 to the room of the
\* buffer, and 0 only at the end of the file
ReadSizes(file, offset, room) ==
    IF offset = Len(file) THEN {0}
    ELSE 1..(IF Len(file) - offset < room THEN Len(file) - offset ELSE room)

InitScp ==
    /\ RoundTripIdle
    /\ BackupIdle
    /\ NamesIdle
    /\ LocateIdle
    /\ FetchIdle
    /\ RestoreIdle
    /\ ExtractIdle
    /\ ProgressIdle
    /\ TransferIdle
    /\ s_pc = "metadata"
    /\ s_result = "running"
    /\ s_file \in FilesOfLength
    /\ s_offset = 0
    /\ buf = [i \in 1..ChunkSize |-> 0]
    /\ s_read_bytes = 0
    /\ s_sent = <<>>
    /\ s_size = <<>>

s_others == <<bvars, nvars, lvars, fvars, rvars, xvars, pvars, tvars, dvars>>

\* a call ended with unwrap() on an Err
SPanic ==
    /\ s_pc' = "done"
    /\ s_result' = "panic"

\* lines 200-204, 220-222: fs::metadata, then scp_send with meta.size()
ScpSend ==
    /\ s_pc = "metadata"
    /\ \/ /\ s_pc' = "done"                         \* metadata Err: logged
          /\ s_result' = "skipped"
          /\ UNCHANGED s_size
       \/ /\ s_size' = <<Len(s_file)>>
          /\ s_pc' = "open"
          /\ UNCHANGED s_result
       \/ SPanic /\ UNCHANGED s_size
    /\ UNCHANGED <<s_file, s_offset, buf, s_read_bytes, s_sent, s_others>>

\* lines 206-209, 212: File::open (first call) and file.read(&mut buf)
ScpRead ==
    /\ s_pc \in {"open", "read"}
    /\ \/ \E n \in ReadSizes(s_file, s_offset, ChunkSize) :
              /\ s_read_bytes' = n
              /\ buf' = ReadInto(buf, s_file, s_offset, n)
              /\ s_offset' = s_offset + n
              /\ s_pc' = IF n > 0 THEN "write" ELSE "eof"
              /\ UNCHANGED s_result
       \/ SPanic /\ UNCHANGED <<s_read_bytes, buf, s_offset>>
    /\ UNCHANGED <<s_file, s_sent, s_size, s_others>>

\* line 211: remote_file.write(&buf) with the whole buffer; Write::write
\* may accept any number of its bytes from 1 on
ScpWrite ==
    /\ s_pc = "write"
    /\ \/ \E written \in 1..Len(buf) :
              /\ s_sent' = s_sent \o SubSeq(buf, 1, written)
              /\ s_pc' = "read"
              /\ UNCHANGED s_result
       \/ SPanic /\ UNCHANGED s_sent
    /\ UNCHANGED <<s_file, s_offset, buf, s_read_bytes, s_size, s_others>>

\* lines 215-218: send_eof, wait_eof, close, wait_close
ScpEof ==
    /\ s_pc = "eof"
    /\ \/ s_pc' = "done" /\ s_result' = "Ok"
       \/ SPanic
    /\ UNCHANGED <<s_file, s_offset, buf, s_read_bytes, s_sent, s_size, s_others>>

NextScp ==
    \/ ScpSend
    \/ ScpRead
    \/ ScpWrite
    \/ ScpEof

SpecScp == InitScp /\ [][NextScp]_vars

\* C21: when the file is sent, the bytes written to the remote handle before
\* EOF are the file's contents in order, and their number is the size
\* declared to scp_send, the length of the file.
C21_ScpSendsWholeFile ==
    (s_pc = "done" /\ s_result = "Ok") =>
        /\ s_size = <<Len(s_file)>>
        /\ Len(s_sent) = Len(s_file)
        /\ s_sent = s_file

----------------------------------------------------------------------------
(* Database::import_database, src/configuration/database.rs 196-231: the   *)
(* dump file is copied to the standard input of the import command         *)

InitImport ==
    /\ RoundTripIdle
    /\ BackupIdle
    /\ NamesIdle
    /\ LocateIdle
    /\ FetchIdle
    /\ RestoreIdle
    /\ ExtractIdle
    /\ ProgressIdle
    /\ TransferIdle
    /\ s_pc = "spawn"
    /\ s_result = "running"
    /\ s_file \in FilesOfLength
    /\ s_offset = 0
    /\ buf = [i \in 1..ChunkSize |-> 0]
    /\ s_read_bytes = 0
    /\ s_sent = <<>>
    /\ s_size = <<>>

\* `return Err(..)`
SErr ==
    /\ s_pc' = "done"
    /\ s_result' = "Err"

\* lines 197-202
ImportSpawn ==
    /\ s_pc = "spawn"
    /\ \/ s_pc' = "read" /\ UNCHANGED s_result
       \/ SErr
    /\ UNCHANGED <<s_file, s_offset, buf, s_read_bytes, s_sent, s_size, s_others>>

\* lines 205-212: file.read(&mut buf); 0 bytes end the loop
ImportRead ==
    /\ s_pc = "read"
    /\ \/ \E n \in ReadSizes(s_file, s_offset, ChunkSize) :
              /\ s_read_bytes' = n
              /\ buf' = ReadInto(buf, s_file, s_offset, n)
              /\ s_offset' = s_offset + n
              /\ s_pc' = IF n > 0 THEN "write" ELSE "wait"
              /\ UNCHANGED s_result
       \/ SErr /\ UNCHANGED <<s_read_bytes, buf, s_offset>>
    /\ UNCHANGED <<s_file, s_sent, s_size, s_others>>

\* lines 213-216: stdin.write(&buf[0..read_bytes]); the number of bytes the
\* pipe accepted is not looked at
ImportWrite ==
    /\ s_pc = "write"
    /\ \/ \E written \in 1..s_read_bytes :
              /\ s_sent' = s_sent \o SubSeq(buf, 1, written)
              /\ s_pc' = "read"
              /\ UNCHANGED s_result
       \/ SErr /\ UNCHANGED s_sent
    /\ UNCHANGED <<s_file, s_offset, buf, s_read_bytes, s_size, s_others>>

\* lines 219-230: wait_with_output and status.success()
ImportWait ==
    /\ s_pc = "wait"
    /\ \/ s_pc' = "done" /\ s_result' = "Ok"
       \/ SErr
    /\ UNCHANGED <<s_file, s_offset, buf, s_read_bytes, s_sent, s_size, s_others>>

NextImport ==
    \/ ImportSpawn
    \/ ImportRead
    \/ ImportWrite
    \/ ImportWait

SpecImport == InitImport /\ [][NextImport]_vars

\* C22: import_database returns success only if every byte of the dump file
\* reached the standard input of the import command once and in order,
\* whatever the short reads and partial writes.
C22_ImportDeliversWholeFile ==
    (s_pc = "done" /\ s_result = "Ok") => s_sent = s_file

----------------------------------------------------------------------------
(* The dispatch of the entries, compression.rs 105-198                     *)

CallsForEntry(e) == SelectSeq(x_calls, LAMBDA c : c.entry = e)

Unpacks(calls) == SelectSeq(calls, LAMBDA c : c.op \in {"unpack_directory", "unpack"})

DatabasesMatching(path) == {k \in 1..Len(dbs) : expected_string(dbs[k]) = path}

\* an entry goes to the directories or to the databases, never to both; one
\* that matches a directory is unpacked below the first such directory, one
\* that matches nothing causes no call
DispatchByKind ==
    \A e \in 1..x_entry :
        LET calls == CallsForEntry(e)
            path == x_entries[e]
            matching == DirectoriesMatching(output_dirs, path)
        IN  /\ matching # {} =>
                  /\ Len(calls) <= 1
                  /\ \A k \in 1..Len(calls) :
                        /\ calls[k].op = "unpack_directory"
                        /\ calls[k].to = dst(output_dirs[Least(matching)], path)
            /\ matching = {} =>
                  \A k \in 1..Len(calls) :
                      /\ calls[k].op \in Range(DbSteps)
                      /\ calls[k].db \in DatabasesMatching(path)
            /\ (matching = {} /\ DatabasesMatching(path) = {}) => calls = <<>>

\* C23: every entry is dispatched to at most one handler, by the rules of
\* DispatchByKind.
C23_OneHandlerPerEntry ==
    /\ DispatchByKind
    /\ \A e \in 1..x_entry : Len(Unpacks(CallsForEntry(e))) <= 1

----------------------------------------------------------------------------
(* Backup names against restore candidates                                 *)

\* C24: the name backup resolves a template to is one of the candidates
\* restore builds from the same template, for every template and date.
C24_ResolvedNameIsCandidate ==
    n_pc = "resolved" =>
        n_file \in Range(build_possible_archive_names(n_archive.name))

\* the agreement holds for the templates with at most one weekday
\* placeholder and no other placeholder
OnlyOneWeekday(name) ==
    /\ Find(name, PH_YEAR) = 0
    /\ Find(name, PH_MONTH) = 0
    /\ Find(name, PH_DAY) = 0
    /\ Find(Replace(name, PH_WEEKDAY, ""), PH_WEEKDAY) = 0

ResolvedNameIsCandidateForOneWeekday ==
    (n_pc = "resolved" /\ OnlyOneWeekday(n_archive.name)) =>
        n_file \in Range(build_possible_archive_names(n_archive.name))

----------------------------------------------------------------------------
(* The file Restore::start works on                                        *)

\* Locate has returned a name and the run is at or past the decrypt step
Located ==
    /\ archive_filename_opt # <<>>
    /\ r_pc \in {"located", "decompress", "extract", "cleanup", "archive_end"}

\* lines 133-146: the file handed to decrypt_file, or to decompress_file
\* when nothing is decrypted, as the process resolves it
restore_input_file ==
    InWorkingDirectory(RestoreInputFile(r_archive, archive_filename_opt[1]))

\* lines 79-87: the file Locate examined for the name it returned
located_file == full_filename(r_archive, archive_filename_opt[1])

\* C25: for a local-directory destination the file restore decrypts or
\* decompresses is the file Locate examined, whatever the working directory.
C25_RestoresTheLocatedFile ==
    (Located /\ r_archive.kind = "Directory") => restore_input_file = located_file

\* C26: after restoring from a local-directory destination the located
\* archive file still exists.
C26_StoredArchiveKept ==
    (Located /\ r_archive.kind = "Directory" /\ r_pc = "archive_end") =>
        located_file \in DOMAIN r_fs

\* C27: for an object-store or secure-copy destination the file restore
\* decrypts or decompresses is the file the download wrote.
C27_RestoresTheDownloadedFile ==
    (Located /\ r_archive.kind \in {"S3", "SSH"} /\ r_pc = "located") =>
        restore_input_file \in r_created

\* a downloaded key that carries the configured suffixes is found again
RestoresTheDownloadedFileWithSuffixes ==
    (Located /\ r_archive.kind \in {"S3", "SSH"} /\ r_pc = "located"
        /\ r_created = {InWorkingDirectory("w-Mon" \o StoredSuffix(r_archive))}) =>
        restore_input_file \in r_created
----------------------------------------------------------------------------
(* What Backup::start hands to the destination                             *)

\* the files of the current archive handed to the destination so far
HandedOver == {storeLog[k].file : k \in 1..Len(storeLog)}

\* the outputs of the encrypt_file calls that returned Ok
Encrypted == {f \in created : EndsWith(f, ".enc")}

\* C29: with encryption configured every file handed to the destination
\* (moved, uploaded or sent) has a name ending in ".enc" and is the output
\* of an encrypt_file call that succeeded.
C29_OnlyEncryptedFilesStored ==
    archive.encryption =>
        \A f \in HandedOver : EndsWith(f, ".enc") /\ f \in Encrypted

C29_Witness ==
    /\ archive.encryption
    /\ \E k \in 1..Len(storeLog) :
          /\ storeLog[k].file \in Encrypted
          /\ storeLog[k].calls[Len(storeLog[k].calls)].ok

\* an archive of configuration.archives is being processed, or the run
\* ended while it was
InArchive == archive # NoArchive

\* lines 77-106: with compression none nothing is built, dumped, encrypted
\* or handed to the destination
NoneBuildsNothing ==
    (InArchive /\ archive.compression = "None") =>
        /\ files_to_move_to_destination = <<>>
        /\ temporary_files = <<>>
        /\ created = {}
        /\ tar_entries = {}
        /\ dump_codes = <<>>
        /\ storeLog = <<>>

\* the run did not end inside the archive
NoneSucceeds ==
    (InArchive /\ archive.compression = "None") => result \notin {"Err", "panic"}

\* lines 77-106: tar and tar+bzip2 leave one file to hand over, and the
\* destination loop takes it once
TarKindsHandOneFile ==
    (InArchive /\ archive.compression \in {"Tar", "TarBZ2"}) =>
        /\ pc \in {"dir_create", "dir_store", "s3", "ssh_connect", "ssh",
                    "cleanup", "archive_end"}
              => Len(files_to_move_to_destination) = 1
        /\ Len(storeLog) <= 1
        /\ (pc = "archive_end" /\ archive.kind # "None") => Len(storeLog) = 1

\* C30: for compression none a backup run builds no file, runs no dump and
\* no encryption, stores nothing, and still reports success; for tar and
\* tar+bzip2 exactly one file per archive is handed to the destination.
C30_NoneStoresNothingAndSucceeds ==
    /\ NoneBuildsNothing
    /\ NoneSucceeds
    /\ TarKindsHandOneFile

\* all of it but the success of the run
NoneStoresNothing ==
    /\ NoneBuildsNothing
    /\ TarKindsHandOneFile

----------------------------------------------------------------------------
(* A directory from tar_archive (src/backup/mod.rs 313-326) to             *)
(* decompress_tar_file (src/configuration/compression.rs 116-155)          *)
(*                                                                         *)
(* Backup packs the files of every configured directory under the          *)
(* directory's archive name; restore, run with the same configuration,     *)
(* unpacks every entry below the parent of the first directory whose       *)
(* name starts the entry's path.                                           *)

\* the configured directories: two with the same last component
RoundTripDirectories == {"/var/www", "/srv/www", "/etc"}

\* the files found below a directory, relative to it, in walk order
RoundTripFiles == {<<>>, <<"a">>, <<"a", "b/c">>}

InitRoundTrip ==
    /\ BackupIdle
    /\ NamesIdle
    /\ LocateIdle
    /\ FetchIdle
    /\ RestoreIdle
    /\ ExtractIdle
    /\ ProgressIdle
    /\ TransferIdle
    /\ StreamIdle
    /\ d_pc = "pack"
    /\ d_directories \in SeqsUpTo(RoundTripDirectories, 2) \ {<<>>}
    /\ d_idx = 0
    /\ d_packed = <<>>
    /\ d_unpacked = <<>>

d_others == <<bvars, nvars, lvars, fvars, rvars, xvars, pvars, tvars, svars>>

\* the entries append_dir_all(archive_directory_string, directory.name)
\* writes for the files of directory k
PackedFrom(k, files) ==
    [j \in 1..Len(files) |->
        [from |-> k, file |-> files[j],
         path |-> ArchiveDirectoryString(d_directories[k]) \o "/" \o files[j]]]

\* backup/mod.rs 313-326: the next directory is appended; a failure ends
\* the backup and no archive is stored
TarAppendDirAll ==
    /\ d_pc = "pack"
    /\ d_idx < Len(d_directories)
    /\ \E files \in RoundTripFiles, ok \in BOOLEAN :
          IF ok
          THEN /\ d_packed' = d_packed \o PackedFrom(d_idx + 1, files)
               /\ d_idx' = d_idx + 1
               /\ UNCHANGED d_pc
          ELSE /\ d_pc' = "done"
               /\ UNCHANGED <<d_packed, d_idx>>
    /\ UNCHANGED <<d_directories, d_unpacked, d_others>>

\* the archive is complete, stored, and handed to restore
RoundTripRestore ==
    /\ d_pc = "pack"
    /\ d_idx = Len(d_directories)
    /\ d_pc' = "unpack"
    /\ d_idx' = 0
    /\ UNCHANGED <<d_directories, d_packed, d_unpacked, d_others>>

\* compression.rs 116-155 for one entry: the first directory whose name
\* starts the path decides; without a parent (`break`) or without a
\* directory the entry is unpacked nowhere
UnpackedTo(path) ==
    LET matching == DirectoriesMatching(d_directories, path)
    IN  IF matching = {} THEN <<>>
        ELSE IF parent(d_directories[Least(matching)]) = <<>> THEN <<>>
        ELSE <<dst(d_directories[Least(matching)], path)>>

UnpackEntry ==
    /\ d_pc = "unpack"
    /\ d_idx < Len(d_packed)
    /\ d_idx' = d_idx + 1
    /\ d_unpacked' = Append(d_unpacked, UnpackedTo(d_packed[d_idx + 1].path))
    /\ UNCHANGED <<d_pc, d_directories, d_packed, d_others>>

\* compression.rs 198: the entries are exhausted
UnpackDone ==
    /\ d_pc = "unpack"
    /\ d_idx = Len(d_packed)
    /\ d_pc' = "done"
    /\ UNCHANGED <<d_idx, d_directories, d_packed, d_unpacked, d_others>>

NextRoundTrip ==
    \/ TarAppendDirAll
    \/ RoundTripRestore
    \/ UnpackEntry
    \/ UnpackDone

SpecRoundTrip == InitRoundTrip /\ [][NextRoundTrip]_vars

\* the file a path names: repeated separators count as one
RECURSIVE Resolved(_)
Resolved(path) ==
    LET k == Find(path, "//")
    IN  IF k = 0 THEN path
        ELSE Resolved(SubSeq(path, 1, k) \o SubSeq(path, k + 2, Len(path)))

\* the place the packed file was read from
OriginalPath(e) == d_directories[e.from] \o "/" \o e.file

\* C28: every entry packed from a configured directory is unpacked, on
\* restore with the same configuration, at the path it was packed from,
\* for every list of directories.
C28_DirectoryRoundTrip ==
    \A k \in 1..Len(d_unpacked) :
        /\ d_unpacked[k] # <<>>
        /\ Resolved(d_unpacked[k][1]) = Resolved(OriginalPath(d_packed[k]))

\* no two configured directories with the same last component lie under
\* different parents
LeafNamesDistinct ==
    \A i, j \in 1..Len(d_directories) :
        file_name(d_directories[i]) = file_name(d_directories[j])
            => d_directories[i] = d_directories[j]

\* with distinct last components every entry returns to its place
DirectoryRoundTripForDistinctLeaves ==
    LeafNamesDistinct => C28_DirectoryRoundTrip

====
